---- MODULE Spec2Model ----
(***************************************************************************)
(* State-machine model of the orchestration core of telegram_bot.py:       *)
(* the per-user session store, get_llama_response (history pruning, the    *)
(* search decision, the event aggregator, the smart_search fallback chain, *)
(* prompt assembly, the race of the two generation backends, the history   *)
(* update) and clear_user_history.                                         *)
(*                                                                         *)
(* The application is built with Application.builder().token(..).build()   *)
(* (telegram_bot.py:3775-3779): updates are dispatched one at a time, so   *)
(* one handler runs to completion before the next one starts.  Inside a    *)
(* handler every await is a separate step of the model.                    *)
(***************************************************************************)
EXTENDS Integers, Sequences, FiniteSets, TLC

VARIABLES
    user_sessions,         \* user id -> session record, or NoSession
    nother,                \* number of calls so far other than the plain greeting
    pc,                    \* position of the running get_llama_response call
    uid,                   \* user_id of the running call
    user_query,            \* the query of the running call (a record of Queries)
    conversation_history,  \* the call's local list of turns
    pruned,                \* whether the call pruned the history ("Pruning history" is logged)
    search_results,        \* the call's search_results (NoText models None)
    search_sources,        \* the call's search_sources
    user_content,          \* the content that goes into the final user message
    messages,              \* the message list the call hands to race_ai_models
    attempted,             \* smart_search: the chain steps entered so far, in order
    last_ret,              \* smart_search: what the last backend call returned
    last_net,              \* smart_search: what the network did to that call
    instant_result,        \* smart_search: instant_result while the supplementary call runs
    tasks,                 \* race_ai_models: state of each backend task
    race_error,            \* race_ai_models: the exception text caught in a race that goes
                           \* on or has failed ("" otherwise)
    pending,               \* race_ai_models: the pending set of the last asyncio.wait
    provider,              \* the provider that race_ai_models returned
    ret,                   \* what get_llama_response returned (NoReturn while running)
    call,                  \* one call of a function of the message front end: its
                           \* arguments and, once it has returned, its result
    conc,                  \* get_llama_response calls of one user in flight at once:
                           \* the list objects, the list the session refers to and
                           \* the list each call holds
    backend,               \* one call of call_groq_api or call_cerebras_api: its
                           \* position in the retry loops and what it has done
    store                  \* the session store with all the fields of a session:
                           \* the file it was loaded from, user_sessions, and what
                           \* the handler of the last update did

vars == <<user_sessions, nother, pc, uid, user_query, conversation_history, pruned,
          search_results, search_sources, user_content, messages, attempted, last_ret, last_net,
          instant_result, tasks, race_error, pending, provider, ret, call, conc, backend,
          store>>

----------------------------------------------------------------------------
(* Configuration (telegram_bot.py:55-100) *)

MAX_HISTORY == 10

SEARCH_ENABLED == TRUE
TAVILY_ENABLED == TRUE
GOOGLE_SEARCH_ENABLED == TRUE
WIKIPEDIA_ENABLED == TRUE
JINA_ENABLED == TRUE
\* The two API keys come from the environment; the model has both set.
TAVILY_API_KEY == TRUE
GOOGLE_SEARCH_API_KEY == TRUE

\* Bound of the model: how many calls of one run may be other than the plain
\* greeting (the query "hi" classified as a greeting or as small talk).
MaxOtherCalls == 1

Users == {1}
NoSession == [exists |-> FALSE, conversation_history |-> <<>>]

----------------------------------------------------------------------------
(* Intents (IntentType, telegram_bot.py:106-114) *)

GREETING == "greeting"
SMALL_TALK == "small_talk"
TIME_QUERY == "time_query"
DATE_QUERY == "date_query"
INFO_QUESTION == "info_question"
REAL_TIME_DATA == "real_time"
GENERAL_TASK == "general_task"

Intents == {GREETING, SMALL_TALK, TIME_QUERY, DATE_QUERY, INFO_QUESTION,
            REAL_TIME_DATA, GENERAL_TASK}

----------------------------------------------------------------------------
(* Queries.  handle_message calls get_llama_response with the message and  *)
(* a response instruction after it (telegram_bot.py:3451-3452); text names *)
(* that string by the message in it, len is len(query.lower().strip()) of  *)
(* the whole string, time says whether the expanded query contains one of  *)
(* 'time', 'date', 'today', 'now', 'current time' (smart_search), event    *)
(* whether the query contains one of the event keywords                    *)
(* (get_llama_response).                                                   *)

Queries ==
    { [text |-> "hi",                len |-> 40, time |-> FALSE, event |-> FALSE],
      [text |-> "tech events today", len |-> 55, time |-> TRUE,  event |-> TRUE] }

\* The plain greeting: the call that needs no search.
PlainGreeting(q, intent) == q.text = "hi" /\ intent \in {GREETING, SMALL_TALK}

NoQuery == [text |-> "", len |-> 0, time |-> FALSE, event |-> FALSE]

----------------------------------------------------------------------------
(* Texts that come from the search side.  A text is known by the call that *)
(* produced it and by its length; NoText models Python's None.             *)

NoText == [origin |-> "None", len |-> 0, merged |-> FALSE]

Text(o, n) == [origin |-> o, len |-> n, merged |-> FALSE]

\* Python truthiness of an Optional[str]
Truthy(t) == t.origin # "None" /\ t.len > 0

\* Lengths a backend result is drawn from: 50 is not adequate (the threshold
\* of smart_search is > 50), 51 is adequate and a short instant answer
\* (< 300), 300 is adequate and not short.
Lens == {50, 51, 300}

\* What the network does to one backend call.
NetOutcomes ==
    { [kind |-> k, len |-> 0] : k \in {"error", "timeout", "empty"} }
    \cup { [kind |-> "text", len |-> n] : n \in Lens }

----------------------------------------------------------------------------
(* Turns.  The content of a turn is a record: kind says what the string    *)
(* is, body is the user's query text or the model's answer, search is the  *)
(* search text embedded in the string (NoText when there is none).         *)

Content(k, b, s) == [kind |-> k, body |-> b, search |-> s]

\* str(user_query)
RawQuery(q) == Content("query", q.text, NoText)

\* f"[Search query: {user_query}]"
SearchQueryMarker(q) == Content("search_marker", q.text, NoText)

\* "[Answered with real-time search data]"
AnsweredMarker == Content("answered_marker", "", NoText)

\* response_text
ResponseContent(text) == Content("response", text, NoText)

\* enhanced_query: the directive block around the search text and the query
\* (telegram_bot.py:2675-2703)
EnhancedQuery(q, s) == Content("enhanced", q.text, s)

NoContent == Content("none", "", NoText)

Turn(r, c) == [role |-> r, content |-> c]

----------------------------------------------------------------------------
(* Session store (telegram_bot.py:989-1047) *)

NewSession == [exists |-> TRUE, conversation_history |-> <<>>]

\* get_user_session: the session map after the call (the session is created
\* with an empty history when the user id is unknown).
get_user_session(sessions, u) ==
    IF sessions[u].exists THEN sessions ELSE [sessions EXCEPT ![u] = NewSession]

\* No pruning: the history as it is.
PruneNothing(h) == h

\* Prune keeping the oldest entries: conversation_history[:MAX_HISTORY * 2]
PruneKeepingOldest(h) ==
    IF Len(h) > MAX_HISTORY * 2
    THEN SubSeq(h, 1, MAX_HISTORY * 2)
    ELSE h

\* Prune with the slice one entry short: conversation_history[-(MAX_HISTORY * 2 - 1):]
PruneOneShort(h) ==
    IF Len(h) > MAX_HISTORY * 2
    THEN SubSeq(h, Len(h) - MAX_HISTORY * 2 + 2, Len(h))
    ELSE h

\* conversation_history[-(MAX_HISTORY * 2):] when the list is too long
Prune(h) ==
    IF Len(h) > MAX_HISTORY * 2
    THEN SubSeq(h, Len(h) - MAX_HISTORY * 2 + 1, Len(h))
    ELSE h

\* A query as the functions of the front end see it: len is
\* len(query.lower().strip()) and groups the set of pattern groups of
\* classify_intent with a pattern that matches the query.
FnQuery(n, groups) == [len |-> n, groups |-> groups]

NoFnQuery == FnQuery(0, {})

\* The pattern groups with the greeting patterns tried first.
IntentPriorityGreetingFirst ==
    <<GREETING, TIME_QUERY, DATE_QUERY, SMALL_TALK, REAL_TIME_DATA, INFO_QUESTION>>

\* The pattern groups of classify_intent in the order the function tries
\* them (telegram_bot.py:356-383), each named by the intent it returns.
IntentPriority ==
    <<TIME_QUERY, DATE_QUERY, GREETING, SMALL_TALK, REAL_TIME_DATA, INFO_QUESTION>>

\* The loops of classify_intent from group i on: groups is the set of groups
\* with a pattern that matches the query.
RECURSIVE FirstMatch(_, _)
FirstMatch(groups, i) ==
    IF i > Len(IntentPriority) THEN GENERAL_TASK
    ELSE IF IntentPriority[i] \in groups THEN IntentPriority[i]
    ELSE FirstMatch(groups, i + 1)

\* classify_intent (telegram_bot.py:348-386)
classify_intent(q) == FirstMatch(q.groups, 1)

\* ShouldSearch without the test of the intent.
ShouldSearchAnyIntent(enabled, q, intent) ==
    IF ~enabled THEN FALSE
    ELSE IF q.len < 3 THEN FALSE
    ELSE TRUE

\* ShouldSearch with the length test one off: len(query_lower) <= 3
ShouldSearchUpToThree(enabled, q, intent) ==
    IF ~enabled THEN FALSE
    ELSE IF q.len <= 3 THEN FALSE
    ELSE IF (IF intent = "None" THEN classify_intent(q) ELSE intent)
                \in {GREETING, SMALL_TALK} THEN FALSE
    ELSE TRUE

\* The body of should_search (telegram_bot.py:1184-1208), enabled being the
\* value of SEARCH_ENABLED; the intent "None" stands for the missing argument.
ShouldSearch(enabled, q, intent) ==
    IF ~enabled THEN FALSE
    ELSE IF q.len < 3 THEN FALSE
    ELSE IF (IF intent = "None" THEN classify_intent(q) ELSE intent)
                \in {GREETING, SMALL_TALK} THEN FALSE
    ELSE TRUE

\* should_search (telegram_bot.py:1176-1208)
should_search(q, intent) == ShouldSearch(SEARCH_ENABLED, q, intent)

\* No query taken to be about events.
NeverEventQuery(q) == FALSE

is_event_query(q) == q.event

\* The time words of smart_search never found in the query.
NeverTimeQuery(q) == FALSE

is_time_query(q) == q.time

----------------------------------------------------------------------------
(* smart_search (telegram_bot.py:2265-2363) *)

\* Steps with the two DuckDuckGo steps the other way round.
StepsFullBeforeInstant == <<"tavily", "google", "ddgs", "instant", "wiki", "jina">>

\* The six steps of the chain, in the order of the function body.
Steps == <<"tavily", "google", "instant", "ddgs", "wiki", "jina">>

\* The label each step returns with its result.
SourceLabel(step) ==
    CASE step = "tavily"  -> "Tavily AI Search"
      [] step = "google"  -> "Google Search"
      [] step = "instant" -> "DuckDuckGo Instant"
      [] step = "ddgs"    -> "DuckDuckGo"
      [] step = "wiki"    -> "Wikipedia"
      [] step = "jina"    -> "Jina AI"

\* The condition in front of each step.
StepConfigured(step) ==
    CASE step = "tavily"  -> TAVILY_ENABLED /\ TAVILY_API_KEY
      [] step = "google"  -> GOOGLE_SEARCH_ENABLED /\ GOOGLE_SEARCH_API_KEY
      [] step = "instant" -> TRUE
      [] step = "ddgs"    -> TRUE
      [] step = "wiki"    -> WIKIPEDIA_ENABLED
      [] step = "jina"    -> JINA_ENABLED

\* The first configured step after step i (Len(Steps) + 1 when there is none).
RECURSIVE NextStep(_)
NextStep(i) ==
    IF i + 1 > Len(Steps) THEN Len(Steps) + 1
    ELSE IF StepConfigured(Steps[i + 1]) THEN i + 1
    ELSE NextStep(i + 1)

StepIndex(step) == CHOOSE i \in 1..Len(Steps) : Steps[i] = step

\* BackendCall letting the failure of the request out of the function.
BackendCallRaising(origin, net) ==
    [raised |-> net.kind \in {"error", "timeout"},
     value  |-> IF net.kind = "text" THEN Text(origin, net.len) ELSE NoText]

\* A backend function (search_tavily, search_internet, search_duckduckgo_instant,
\* search_ddgs, search_wikipedia, search_jina, get_accurate_time): each one wraps
\* its request in try/except and returns None on an error, a timeout, a non-200
\* response or an empty result; origin names the call that produced the text.
BackendCall(origin, net) ==
    [raised |-> FALSE,
     value  |-> IF net.kind = "text" THEN Text(origin, net.len) ELSE NoText]

\* Adequate without the length test: if x_result
AdequateIfTruthy(t) == Truthy(t)

\* if x_result and len(x_result) > 50
Adequate(t) == Truthy(t) /\ t.len > 50

\* f"{instant_result}\n\n**Additional Context:**\n{ddg_extra}"
MergeInstant(instant, extra) ==
    [origin |-> instant.origin, len |-> instant.len + 26 + extra.len, merged |-> TRUE]

\* The instant-answer step after the supplementary search_ddgs call came back:
\* what smart_search returns, or "next" when the except clause of the step
\* took over.
AfterSupplement(instant, r) ==
    IF r.raised THEN [next |-> TRUE, text |-> NoText]
    ELSE IF Truthy(r.value) THEN [next |-> FALSE, text |-> MergeInstant(instant, r.value)]
    ELSE [next |-> FALSE, text |-> instant]

----------------------------------------------------------------------------
(* EventsIntelligenceAgent (telegram_bot.py:3711-3754) *)

EventSources == <<"Eventbrite", "Meetup">>

\* What one event source answers: a number of events, or a failure.
EventNet == {[kind |-> "error", n |-> 0], [kind |-> "events", n |-> 0], [kind |-> "events", n |-> 1]}

\* search_eventbrite / search_meetup: the list of events (an exception inside
\* is swallowed and the list collected so far, here the empty one, is returned).
source_events(src, net) ==
    IF net.kind = "events" /\ net.n > 0 THEN <<[title |-> "PyDelhi Meetup", source |-> src]>> ELSE <<>>

\* discover_events: the concatenation of the lists of the sources
discover_events(n1, n2) ==
    source_events(EventSources[1], n1) \o source_events(EventSources[2], n2)

\* len(f"{i}. {e.title} ({e.source})\n") for the events of the model
EventLineLen(e) == 3 + 14 + 2 + (IF e.source = "Eventbrite" THEN 10 ELSE 6) + 2

RECURSIVE EventLinesLen(_)
EventLinesLen(events) ==
    IF events = <<>> THEN 0
    ELSE EventLineLen(Head(events)) + EventLinesLen(Tail(events))

\* f"EVENTS FOUND:\n{formatted_events}", formatted_events being the header
\* f"**Found {len(events)} Events:**\n" and one line per event
EventsText(events) == Text("events", 14 + 20 + EventLinesLen(events))

----------------------------------------------------------------------------
(* get_llama_response, prompt side (telegram_bot.py:2660-2712) *)

\* The search text put into the prompt as it is, whatever its length.
TruncateNothing(t) == t

\* search_results[:max_context_chars] + "\n... [truncated for accuracy]"
TruncateContext(t) ==
    IF t.len > 3000 THEN [t EXCEPT !.len = 3000 + 29] ELSE t

\* The system message: get_system_prompt_with_timestamp()
SystemMessage == Turn("system", Content("system_prompt", "", NoText))

\* f"{user_content}{final_length_instruction}": the content with the length
\* and format instruction after it.
FinalUserContent(c) ==
    [kind |-> c.kind, body |-> c.body, search |-> c.search,
     suffix |-> "length_instruction format_instruction"]

\* Messages with the message of the current turn in front of the history.
MessagesCurrentTurnFirst(history, c) ==
    <<SystemMessage, Turn("user", FinalUserContent(c))>> \o history

\* The message list (telegram_bot.py:2763-2773): the system message, the
\* history, the final user message.
Messages(history, c) ==
    <<SystemMessage>> \o history \o <<Turn("user", FinalUserContent(c))>>

----------------------------------------------------------------------------
(* Generation side (telegram_bot.py:2430-2602, 2775-2811) *)

Backends == {"groq", "cerebras"}

\* The text a backend answers with: data['choices'][0]['message']['content'],
\* taken to be a string as the chat-completion API answers it.
ResponseText == "Sure! 42"

\* validate_and_clean_response: the filler opener is removed.
validate_and_clean_response(text) ==
    IF text = "Sure! 42" THEN "42" ELSE text

\* The exception texts a failed backend task carries (last_error).
ErrBodies == {"Groq API Error 500: upstream body", "Cerebras timeout"}

NoReturn == [kind |-> "none", text |-> ""]
Returned(s) == [kind |-> "str", text |-> s]
Raised(e) == [kind |-> "raise", text |-> e]

\* raise Exception("All AI models failed to respond.") (telegram_bot.py:2602)
RaceFailure == "All AI models failed to respond."

\* on_race_exception without the except clause: the exception goes on to the
\* outermost handler.
RaceExceptionUncaught(e) == Raised(e)

\* on_race_exception putting the text of the exception into the message.
RaceExceptionShown(e) == Returned(e)

\* The except clause around the race (telegram_bot.py:2786-2788); the leading
\* emoji of the message is left out.
on_race_exception(e) ==
    Returned("Error connecting to AI Service. Both Groq and Cerebras failed.")

\* The outermost except clause (telegram_bot.py:2809-2811): whatever is raised
\* inside the function comes out as a fixed message.
outer_except(r) ==
    IF r.kind = "raise"
    THEN Returned("Sorry, an unexpected error occurred while processing your request. Please try again!")
    ELSE r

\* NewTurns without the user turn: only the answer is appended.
NewTurnsAnswerOnly(q, results, content, text) ==
    IF Truthy(results)
    THEN << Turn("assistant", AnsweredMarker) >>
    ELSE << Turn("assistant", ResponseContent(text)) >>

\* NewTurns storing the markers for every turn, with or without search text.
NewTurnsAlwaysMarkers(q, results, content, text) ==
    << Turn("user", SearchQueryMarker(q)), Turn("assistant", AnsweredMarker) >>

\* NewTurns storing the user message as it was sent to the model.
NewTurnsAsSent(q, results, content, text) ==
    << Turn("user", content), Turn("assistant", ResponseContent(text)) >>

\* The two turns the call appends on success (telegram_bot.py:2792-2801):
\* content is the user message as it went to the model, which is not stored.
NewTurns(q, results, content, text) ==
    IF Truthy(results)
    THEN << Turn("user", SearchQueryMarker(q)), Turn("assistant", AnsweredMarker) >>
    ELSE << Turn("user", RawQuery(q)), Turn("assistant", ResponseContent(text)) >>

----------------------------------------------------------------------------
(* Initial state: no session, no call running (user_sessions = {} with no  *)
(* user_data.json; conversation histories are never written to that file). *)

\* What the classification request of classify_intent_with_ai comes back
\* with: kind is "text" for a 200 response with a readable body, words being
\* the words of the upper-cased content; "non200", "timeout", "error" and
\* "malformed" are the failures.
Llm(kind, words) == [kind |-> kind, words |-> words]
NoLlm == Llm("none", {})

\* A message as get_dynamic_response_config sees it: short, detail and
\* complex say whether query_lower contains a brevity keyword, an explicit
\* detail keyword, a complex-question pattern; words is len(query.split()).
Message(short, detail, complex, words) ==
    [short |-> short, detail |-> detail, complex |-> complex, words |-> words]
NoMessage == Message(FALSE, FALSE, FALSE, 0)

\* The dict get_dynamic_response_config returns (length_instruction goes with
\* response_style).
Shape(style, tokens) == [response_style |-> style, max_tokens |-> tokens]
NoConfig == Shape("None", 0)

\* No calls in flight at once.
NoConc == [heap |-> <<>>, session |-> 0, initial |-> <<>>,
           local |-> <<>>, pc |-> <<>>, won |-> <<>>, clears |-> 0, cleared |-> {}]

\* No backend call under way.
NoBackend == [name |-> "none", pc |-> "none", model |-> 0, attempt |-> 0, log |-> <<>>,
              last_error |-> "None", result |-> "None"]

\* The session store left out.
NoStore == [file |-> [readable |-> FALSE, entries |-> <<>>, bad_key |-> FALSE],
            loaded |-> <<>>, user_sessions |-> <<>>, op |-> "none",
            actor |-> 0, trace |-> <<>>, result |-> "None"]

\* No function call under way.
NoCall == [fn |-> "none", enabled |-> TRUE, query |-> NoFnQuery, intent |-> "None",
           llm |-> NoLlm, message |-> NoMessage,
           returned |-> FALSE, asked |-> FALSE, flag |-> FALSE, result |-> "None",
           config |-> NoConfig, titles |-> <<>>, events |-> <<>>,
           context |-> NoText, inserted |-> NoText]

Init ==
    /\ user_sessions = [u \in Users |-> NoSession]
    /\ nother = 0
    /\ pc = "idle"
    /\ uid = 1
    /\ user_query = NoQuery
    /\ conversation_history = <<>>
    /\ pruned = FALSE
    /\ search_results = NoText
    /\ search_sources = <<>>
    /\ user_content = NoContent
    /\ messages = <<>>
    /\ attempted = <<>>
    /\ last_ret = NoText
    /\ last_net = "none"
    /\ instant_result = NoText
    /\ tasks = [b \in Backends |-> "none"]
    /\ race_error = ""
    /\ pending = {}
    /\ provider = ""
    /\ ret = NoReturn
    /\ call = NoCall
    /\ conc = NoConc
    /\ backend = NoBackend
    /\ store = NoStore

----------------------------------------------------------------------------
(* Pieces of get_llama_response that several steps end with *)

\* No race yet: the call has not reached race_ai_models.
NoRace ==
    /\ tasks' = [b \in Backends |-> "none"]
    /\ race_error' = ""
    /\ pending' = {}
    /\ provider' = ""

\* The search branch goes on: nothing of the prompt is built yet.
NoPrompt ==
    /\ search_results' = NoText
    /\ search_sources' = <<>>
    /\ user_content' = NoContent
    /\ messages' = <<>>

\* race_ai_models up to its first await: both tasks are created.
StartRace ==
    /\ tasks' = [b \in Backends |-> "running"]
    /\ race_error' = ""
    /\ pending' = {}
    /\ provider' = ""
    /\ pc' = "race_wait1"

\* From the end of the search branch to the race (telegram_bot.py:2660-2782):
\* res and srcs are search_results and search_sources as the search left them.
\* The locals of smart_search are gone by then.  The history that goes into
\* the messages is the call's local list, which a call at its start has just
\* set.
BuildPromptAndRace(q, res, srcs) ==
    /\ search_results' = (IF Truthy(res) THEN TruncateContext(res) ELSE res)
    /\ search_sources' = srcs
    /\ user_content' = (IF Truthy(res)
                        THEN EnhancedQuery(q, TruncateContext(res))
                        ELSE RawQuery(q))
    /\ messages' = Messages(IF pc \in {"idle", "done"}
                            THEN conversation_history' ELSE conversation_history,
                            IF Truthy(res)
                            THEN EnhancedQuery(q, TruncateContext(res))
                            ELSE RawQuery(q))
    /\ instant_result' = NoText
    /\ StartRace

\* smart_search goes on to await the call of step i, or returns (None, [])
\* when the chain is used up; att is the list of calls made so far and inst
\* the value of instant_result.
ChainTo(q, i, att, inst) ==
    IF i <= Len(Steps)
    THEN /\ pc' = Steps[i]
         /\ attempted' = Append(att, Steps[i])
         /\ instant_result' = inst
         /\ NoPrompt
         /\ NoRace
    ELSE /\ attempted' = att
         /\ BuildPromptAndRace(q, NoText, <<>>)

\* smart_search from its first line to its first await.
EnterSmartSearch(q) ==
    IF is_time_query(q)
    THEN /\ pc' = "time"
         /\ attempted' = <<"time">>
         /\ instant_result' = NoText
         /\ NoPrompt
         /\ NoRace
    ELSE ChainTo(q, NextStep(0), <<>>, NoText)

----------------------------------------------------------------------------
(* get_llama_response, from the call to its first await                    *)
(* (telegram_bot.py:2605-2658)                                             *)

Begin(u, q, intent) ==
    LET sessions1 == get_user_session(user_sessions, u)
        history   == Prune(sessions1[u].conversation_history)
    IN  /\ pc \in {"idle", "done"}
        /\ ~PlainGreeting(q, intent) => nother < MaxOtherCalls
        /\ nother' = (IF PlainGreeting(q, intent) THEN nother ELSE nother + 1)
        /\ user_sessions' = [sessions1 EXCEPT ![u].conversation_history = history]
        /\ uid' = u
        /\ user_query' = q
        /\ conversation_history' = history
        /\ pruned' = (Len(sessions1[u].conversation_history) > MAX_HISTORY * 2)
        /\ last_ret' = NoText
        /\ last_net' = "none"
        /\ ret' = NoReturn
        /\ UNCHANGED <<call, conc, backend, store>>
        /\ IF should_search(q, intent)
           THEN IF is_event_query(q)
                THEN /\ pc' = "events"
                     /\ attempted' = <<>>
                     /\ instant_result' = NoText
                     /\ NoPrompt
                     /\ NoRace
                ELSE EnterSmartSearch(q)
           ELSE /\ attempted' = <<>>
                /\ BuildPromptAndRace(q, NoText, <<>>)

\* discover_events came back (telegram_bot.py:2644-2658): n1 and n2 are what
\* the two event sources answered.
EventsReturn(n1, n2) ==
    LET event_results == discover_events(n1, n2)
    IN  /\ pc = "events"
        /\ last_ret' = (IF Len(event_results) > 0 THEN EventsText(event_results) ELSE NoText)
        /\ last_net' = "none"
        /\ IF Len(event_results) > 0
           THEN /\ attempted' = <<>>
                /\ BuildPromptAndRace(user_query, EventsText(event_results),
                                      <<"Events Intelligence Agent">>)
           ELSE EnterSmartSearch(user_query)
        /\ UNCHANGED <<call, conc, backend, store, user_sessions, nother, uid, user_query, conversation_history, pruned, ret>>

----------------------------------------------------------------------------
(* smart_search, one action per awaited call *)

\* get_accurate_time came back (telegram_bot.py:2284-2291)
TimeReturn(net) ==
    LET r == BackendCall("time", net)
    IN  /\ pc = "time"
        /\ last_ret' = r.value
        /\ last_net' = net.kind
        /\ IF ~r.raised /\ Truthy(r.value)
           THEN /\ attempted' = attempted
                /\ BuildPromptAndRace(user_query, r.value, <<"Time API">>)
           ELSE ChainTo(user_query, NextStep(0), attempted, NoText)
        /\ UNCHANGED <<call, conc, backend, store, user_sessions, nother, uid, user_query, conversation_history, pruned, ret>>

\* The call of a step other than the instant-answer step came back
\* (telegram_bot.py:2293-2313, 2330-2360).
StepReturn(step, net) ==
    LET r == BackendCall(step, net)
    IN  /\ pc = step
        /\ step \in {"tavily", "google", "ddgs", "wiki", "jina"}
        /\ last_ret' = r.value
        /\ last_net' = net.kind
        /\ IF ~r.raised /\ Adequate(r.value)
           THEN /\ attempted' = attempted
                /\ BuildPromptAndRace(user_query, r.value, <<SourceLabel(step)>>)
           ELSE ChainTo(user_query, NextStep(StepIndex(step)), attempted, instant_result)
        /\ UNCHANGED <<call, conc, backend, store, user_sessions, nother, uid, user_query, conversation_history, pruned, ret>>

\* search_duckduckgo_instant came back (telegram_bot.py:2315-2328): a short
\* adequate answer makes the step await the supplementary search_ddgs call.
InstantReturn(net) ==
    LET r == BackendCall("instant", net)
    IN  /\ pc = "instant"
        /\ last_ret' = r.value
        /\ last_net' = net.kind
        /\ IF ~r.raised /\ Adequate(r.value)
           THEN IF r.value.len < 300
                THEN /\ pc' = "supp"
                     /\ attempted' = Append(attempted, "supp")
                     /\ instant_result' = r.value
                     /\ NoPrompt
                     /\ NoRace
                ELSE /\ attempted' = attempted
                     /\ BuildPromptAndRace(user_query, r.value, <<SourceLabel("instant")>>)
           ELSE ChainTo(user_query, NextStep(StepIndex("instant")), attempted, r.value)
        /\ UNCHANGED <<call, conc, backend, store, user_sessions, nother, uid, user_query, conversation_history, pruned, ret>>

\* The supplementary search_ddgs(query, max_results=3) came back
\* (telegram_bot.py:2323-2328).
SupplementReturn(net) ==
    LET r   == BackendCall("ddgs_extra", net)
        out == AfterSupplement(instant_result, r)
    IN  /\ pc = "supp"
        /\ last_ret' = r.value
        /\ last_net' = net.kind
        /\ IF out.next
           THEN ChainTo(user_query, NextStep(StepIndex("instant")), attempted, instant_result)
           ELSE /\ attempted' = attempted
                /\ BuildPromptAndRace(user_query, out.text, <<SourceLabel("instant")>>)
        /\ UNCHANGED <<call, conc, backend, store, user_sessions, nother, uid, user_query, conversation_history, pruned, ret>>

----------------------------------------------------------------------------
(* race_ai_models (telegram_bot.py:2566-2602) and the rest of              *)
(* get_llama_response (telegram_bot.py:2775-2811)                          *)

\* What race_ai_models hands to its caller.
RaceReturn(text, p) == [kind |-> "return", text |-> text, provider |-> p]
RaceRaise(e) == [kind |-> "raise", text |-> e, provider |-> ""]

\* WaitForOthers giving up at once: the pending tasks are not waited for.
WaitForNone(pend) == FALSE

\* if pending: (telegram_bot.py:2591) after every finished task has failed
WaitForOthers(pend) == pend # {}

\* CancelPending without the cancel() calls: the pending tasks run on.
CancelNothing(t, pend) == t

\* for p in pending: p.cancel()
CancelPending(t, pend) == [b \in Backends |-> IF b \in pend THEN "cancelled" ELSE t[b]]

\* AfterRace appending the two turns also when the race has failed.
AfterRaceAlwaysAppends(out) ==
    LET turns   == NewTurns(user_query, search_results, user_content, out.text)
        history == conversation_history \o turns
    IN  /\ pc' = "done"
        /\ provider' = out.provider
        /\ conversation_history' = history
        /\ user_sessions' = [user_sessions EXCEPT ![uid].conversation_history = history]
        /\ ret' = (IF out.kind = "raise"
                   THEN outer_except(on_race_exception(out.text))
                   ELSE outer_except(Returned(validate_and_clean_response(out.text))))

\* get_llama_response after race_ai_models returned or raised: the history
\* update and the return value (telegram_bot.py:2779-2811).
AfterRace(out) ==
    LET turns   == NewTurns(user_query, search_results, user_content, out.text)
        history == conversation_history \o turns
    IN  /\ pc' = "done"
        /\ provider' = out.provider
        /\ IF out.kind = "raise"
           THEN /\ ret' = outer_except(on_race_exception(out.text))
                /\ UNCHANGED <<user_sessions, conversation_history>>
           ELSE /\ conversation_history' = history
                /\ user_sessions' = [user_sessions EXCEPT ![uid].conversation_history = history]
                /\ ret' = outer_except(Returned(validate_and_clean_response(out.text)))

\* A backend task (call_groq_api, call_cerebras_api) finishes: it returns
\* (response_text, provider) or raises Exception(last_error).
TaskCompletes(b, ok) ==
    /\ pc \in {"race_wait1", "race_wait2"}
    /\ tasks[b] = "running"
    /\ tasks' = [tasks EXCEPT ![b] = IF ok THEN "ok" ELSE "failed"]
    /\ UNCHANGED <<call, conc, backend, store, user_sessions, nother, pc, uid, user_query, conversation_history, pruned,
                   search_results, search_sources, user_content, messages, attempted, last_ret,
                   last_net, instant_result, race_error, pending, provider, ret>>

\* The first asyncio.wait returns (telegram_bot.py:2576-2592).  done holds
\* every task finished by then; the loop over done takes the tasks in any
\* order, so with two successful tasks either may be the one returned.  The
\* exception text e of a failed task is caught and logged, nothing else.
RaceWake1 ==
    LET done == {b \in Backends : tasks[b] \in {"ok", "failed"}}
        pend == {b \in Backends : tasks[b] = "running"}
    IN  /\ pc = "race_wait1"
        /\ done # {}
        /\ IF \E b \in done : tasks[b] = "ok"
           THEN \E w \in {b \in done : tasks[b] = "ok"} :
                    /\ tasks' = CancelPending(tasks, pend)
                    /\ pending' = pend
                    /\ race_error' = ""
                    /\ AfterRace(RaceReturn(ResponseText, w))
           ELSE \E e \in ErrBodies :
                    /\ race_error' = e
                    /\ pending' = pend
                    /\ UNCHANGED tasks
                    /\ IF WaitForOthers(pend)
                       THEN /\ pc' = "race_wait2"
                            /\ UNCHANGED <<provider, ret, user_sessions, conversation_history>>
                       ELSE AfterRace(RaceRaise(RaceFailure))
        /\ UNCHANGED <<call, conc, backend, store, nother, uid, user_query, pruned, search_results, search_sources,
                       user_content, messages, attempted, last_ret, last_net, instant_result>>

\* The second asyncio.wait returns (telegram_bot.py:2592-2602): the result of
\* a finished task is returned, its exception passed over.
RaceWake2 ==
    LET done == {b \in pending : tasks[b] \in {"ok", "failed"}}
        pend == {b \in pending : tasks[b] = "running"}
    IN  /\ pc = "race_wait2"
        /\ done # {}
        /\ pending' = pend
        /\ UNCHANGED tasks
        /\ IF \E b \in done : tasks[b] = "ok"
           THEN \E w \in {b \in done : tasks[b] = "ok"} :
                    /\ race_error' = ""
                    /\ AfterRace(RaceReturn(ResponseText, w))
           ELSE /\ UNCHANGED race_error
                /\ AfterRace(RaceRaise(RaceFailure))
        /\ UNCHANGED <<call, conc, backend, store, nother, uid, user_query, pruned, search_results, search_sources,
                       user_content, messages, attempted, last_ret, last_net, instant_result>>

----------------------------------------------------------------------------
(* clear_user_history (telegram_bot.py:1035-1047), run by clear_command     *)
(* between two messages.  For an unknown user id nothing changes.          *)

clear_user_history(u) ==
    /\ pc \in {"idle", "done"}
    /\ user_sessions[u].exists
    /\ user_sessions[u].conversation_history # <<>>
    /\ user_sessions' = [user_sessions EXCEPT ![u].conversation_history = <<>>]
    /\ UNCHANGED <<call, conc, backend, store, nother, pc, uid, user_query, conversation_history, pruned,
                   search_results, search_sources, user_content, messages, attempted, last_ret,
                   last_net, instant_result, tasks, race_error, pending, provider, ret>>

----------------------------------------------------------------------------

Next ==
    \/ \E u \in Users, q \in Queries, intent \in Intents : Begin(u, q, intent)
    \/ \E n1 \in EventNet, n2 \in EventNet : EventsReturn(n1, n2)
    \/ \E net \in NetOutcomes : TimeReturn(net)
    \/ \E step \in {"tavily", "google", "ddgs", "wiki", "jina"}, net \in NetOutcomes :
           StepReturn(step, net)
    \/ \E net \in NetOutcomes : InstantReturn(net)
    \/ \E net \in NetOutcomes : SupplementReturn(net)
    \/ \E b \in Backends, ok \in BOOLEAN : TaskCompletes(b, ok)
    \/ RaceWake1
    \/ RaceWake2
    \/ \E u \in Users : clear_user_history(u)

Spec == Init /\ [][Next]_vars

\* Every awaited call of get_llama_response comes back and every backend task
\* of the race finishes: a call that is not over takes its next step.
SpecFair == Spec /\ WF_vars(Next)

----------------------------------------------------------------------------
(* The functions of the message front end, one call at a time: the         *)
(* arguments are drawn when the run starts, the action of the function     *)
(* computes the result.  No get_llama_response call runs meanwhile.        *)

session_vars ==
    <<user_sessions, nother, pc, uid, user_query, conversation_history, pruned,
      search_results, search_sources, user_content, messages, attempted, last_ret, last_net,
      instant_result, tasks, race_error, pending, provider, ret>>

\* A call of fn with its arguments, not yet returned.
Call(fn, enabled, q, intent) ==
    [fn |-> fn, enabled |-> enabled, query |-> q, intent |-> intent,
     llm |-> NoLlm, message |-> NoMessage,
     returned |-> FALSE, asked |-> FALSE, flag |-> FALSE, result |-> "None",
     config |-> NoConfig, titles |-> <<>>, events |-> <<>>,
     context |-> NoText, inserted |-> NoText]

\* The calls of should_search: SEARCH_ENABLED on or off, queries of 0, 2, 3
\* and 40 characters, every intent and the missing intent.
ShouldSearchCalls ==
    { Call("should_search", e, FnQuery(n, g), i) :
        e \in BOOLEAN, n \in {0, 2, 3, 40},
        g \in {{}, {GREETING}, {SMALL_TALK, INFO_QUESTION}, {TIME_QUERY, GREETING}},
        i \in Intents \cup {"None"} }

\* The calls of classify_intent: every combination of pattern groups that
\* match the query.
ClassifyIntentCalls ==
    { Call("classify_intent", TRUE, FnQuery(40, g), "None") :
        g \in SUBSET {TIME_QUERY, DATE_QUERY, GREETING, SMALL_TALK,
                      REAL_TIME_DATA, INFO_QUESTION} }

\* Words of an upper-cased answer of the classification model: the four
\* bucket names of the prompt and three words that are none of them.
AiWords == {"GREETING", "SMALL_TALK", "KNOWLEDGE", "REALTIME", "GENERAL", "LIVE", "UNSURE"}

\* The strings the mapping of classify_intent_with_ai looks for that are
\* substrings of the word w.
MarkersIn(w) ==
    CASE w = "GREETING"   -> {"GREETING"}
      [] w = "SMALL_TALK" -> {"SMALL", "TALK"}
      [] w = "KNOWLEDGE"  -> {"KNOWLEDGE"}
      [] w = "REALTIME"   -> {"REALTIME", "REAL", "TIME"}
      [] w = "GENERAL"    -> {"GENERAL"}
      [] w = "LIVE"       -> {"LIVE"}
      [] OTHER            -> {}

\* marker in ai_response
Contains(ai_response, marker) == \E w \in ai_response : marker \in MarkersIn(w)

\* The mapping with the rule-based classification as its last branch.
MapAiResponseOrRules(q, ai_response) ==
    IF Contains(ai_response, "GREETING") THEN GREETING
    ELSE IF Contains(ai_response, "SMALL") \/ Contains(ai_response, "TALK")
    THEN SMALL_TALK
    ELSE IF Contains(ai_response, "KNOWLEDGE") \/ Contains(ai_response, "GENERAL")
    THEN GENERAL_TASK
    ELSE IF \/ Contains(ai_response, "REALTIME") \/ Contains(ai_response, "REAL")
            \/ Contains(ai_response, "TIME") \/ Contains(ai_response, "LIVE")
    THEN REAL_TIME_DATA
    ELSE classify_intent(q)

\* The if/elif chain over ai_response (telegram_bot.py:455-474)
MapAiResponse(q, ai_response) ==
    IF Contains(ai_response, "GREETING") THEN GREETING
    ELSE IF Contains(ai_response, "SMALL") \/ Contains(ai_response, "TALK")
    THEN SMALL_TALK
    ELSE IF Contains(ai_response, "KNOWLEDGE") \/ Contains(ai_response, "GENERAL")
    THEN GENERAL_TASK
    ELSE IF \/ Contains(ai_response, "REALTIME") \/ Contains(ai_response, "REAL")
            \/ Contains(ai_response, "TIME") \/ Contains(ai_response, "LIVE")
    THEN REAL_TIME_DATA
    ELSE GENERAL_TASK

\* classify_intent_with_ai sends a request when the stripped query is longer
\* than 2 characters.
AsksAi(q) == q.len > 2

\* classify_intent_with_ai (telegram_bot.py:413-480)
classify_intent_with_ai(q, llm) ==
    IF ~AsksAi(q) THEN classify_intent(q)
    ELSE IF llm.kind # "text" THEN classify_intent(q)
    ELSE MapAiResponse(q, llm.words)

\* What the classification request comes back with: the four failures and the
\* answers of at most two words.
LlmOutcomes ==
    { Llm(k, {}) : k \in {"non200", "timeout", "error", "malformed"} }
    \cup { Llm("text", ws) : ws \in { x \in SUBSET AiWords : Cardinality(x) <= 2 } }

\* The calls of classify_intent_with_ai: queries of 2, 3 and 40 characters.
ClassifyWithAiCalls ==
    { [Call("classify_intent_with_ai", TRUE, FnQuery(n, g), "None") EXCEPT !.llm = l] :
        n \in {2, 3, 40},
        g \in {{}, {GREETING}, {INFO_QUESTION}, {TIME_QUERY, GREETING},
               {REAL_TIME_DATA, INFO_QUESTION}},
        l \in LlmOutcomes }

\* wants_detail
WantsDetail(m) == m.detail \/ m.complex \/ m.words >= 12

\* The rules with 'detailed' tried before 'brief'.
DynamicResponseConfigDetailFirst(m, intent) ==
    IF intent \in {GREETING, SMALL_TALK} THEN Shape("casual", 500)
    ELSE IF WantsDetail(m) THEN Shape("detailed", 6000)
    ELSE IF m.short THEN Shape("brief", 800)
    ELSE Shape("normal", 4000)

\* AdaptiveResponseEngine.get_dynamic_response_config (telegram_bot.py:1900-1998)
get_dynamic_response_config(m, intent) ==
    IF intent \in {GREETING, SMALL_TALK} THEN Shape("casual", 500)
    ELSE IF m.short THEN Shape("brief", 800)
    ELSE IF WantsDetail(m) THEN Shape("detailed", 6000)
    ELSE Shape("normal", 4000)

\* The calls of get_dynamic_response_config: every intent and the missing
\* intent, every combination of keywords, queries of 11 and of 12 words.
ResponseConfigCalls ==
    { [Call("get_dynamic_response_config", TRUE, NoFnQuery, i)
          EXCEPT !.message = Message(s, d, c, w)] :
        i \in Intents \cup {"None"}, s \in BOOLEAN, d \in BOOLEAN, c \in BOOLEAN,
        w \in {11, 12} }

\* Titles an event source may report.
EventTitles == {"PyDelhi Meetup", "pydelhi meetup!", "AI Summit 2025"}

\* EventResult._normalize: re.sub(r'[^\w\s]', '', text.lower().strip())
Normalize(title) ==
    CASE title = "PyDelhi Meetup"  -> "pydelhi meetup"
      [] title = "pydelhi meetup!" -> "pydelhi meetup"
      [] title = "AI Summit 2025"  -> "ai summit 2025"

\* An EventResult of a source: its title and its source.
EventResult(title, src) == [title |-> title, source |-> src]

\* The list a source returns for the titles it found.
EventsOf(src, titles) == [i \in 1..Len(titles) |-> EventResult(titles[i], src)]

\* The lists of titles one source finds: none (also when the source fails),
\* one, or two.
TitleLists ==
    {<<>>} \cup { <<t>> : t \in EventTitles }
           \cup { <<t1, t2>> : t1 \in EventTitles, t2 \in EventTitles }

\* discover_events over the lists the two sources return
\* (telegram_bot.py:3741-3748): all_events.extend(res) for each list.
DiscoverEvents(titles) ==
    EventsOf(EventSources[1], titles[1]) \o EventsOf(EventSources[2], titles[2])

\* The calls of discover_events: what the two sources find.
DiscoverEventsCalls ==
    { [Call("discover_events", TRUE, NoFnQuery, "None") EXCEPT !.titles = <<t1, t2>>] :
        t1 \in TitleLists, t2 \in TitleLists }

\* The search texts that reach the prompt: of one character, around the
\* limit of 3000 characters, and far above it.
TruncationCalls ==
    { [Call("truncate_context", TRUE, NoFnQuery, "None") EXCEPT !.context = Text(o, n)] :
        o \in {"tavily", "events"}, n \in {1, 2999, 3000, 3001, 3029, 3030, 10000} }

InitFn ==
    /\ user_sessions = [u \in Users |-> NoSession]
    /\ nother = 0
    /\ pc = "idle"
    /\ uid = 1
    /\ user_query = NoQuery
    /\ conversation_history = <<>>
    /\ pruned = FALSE
    /\ search_results = NoText
    /\ search_sources = <<>>
    /\ user_content = NoContent
    /\ messages = <<>>
    /\ attempted = <<>>
    /\ last_ret = NoText
    /\ last_net = "none"
    /\ instant_result = NoText
    /\ tasks = [b \in Backends |-> "none"]
    /\ race_error = ""
    /\ pending = {}
    /\ provider = ""
    /\ ret = NoReturn
    /\ call \in ShouldSearchCalls \cup ClassifyIntentCalls \cup ClassifyWithAiCalls
                   \cup ResponseConfigCalls \cup DiscoverEventsCalls \cup TruncationCalls
    /\ conc = NoConc
    /\ backend = NoBackend
    /\ store = NoStore

\* should_search returns.
should_search_returns ==
    /\ call.fn = "should_search"
    /\ ~call.returned
    /\ call' = [call EXCEPT !.returned = TRUE,
                            !.flag = ShouldSearch(call.enabled, call.query, call.intent)]
    /\ UNCHANGED <<session_vars, conc, backend, store>>

\* classify_intent returns.
classify_intent_returns ==
    /\ call.fn = "classify_intent"
    /\ ~call.returned
    /\ call' = [call EXCEPT !.returned = TRUE, !.result = classify_intent(call.query)]
    /\ UNCHANGED <<session_vars, conc, backend, store>>

\* classify_intent_with_ai returns.
classify_intent_with_ai_returns ==
    /\ call.fn = "classify_intent_with_ai"
    /\ ~call.returned
    /\ call' = [call EXCEPT !.returned = TRUE,
                            !.asked = AsksAi(call.query),
                            !.result = classify_intent_with_ai(call.query, call.llm)]
    /\ UNCHANGED <<session_vars, conc, backend, store>>

\* get_dynamic_response_config returns.
get_dynamic_response_config_returns ==
    /\ call.fn = "get_dynamic_response_config"
    /\ ~call.returned
    /\ call' = [call EXCEPT !.returned = TRUE,
                            !.config = get_dynamic_response_config(call.message, call.intent)]
    /\ UNCHANGED <<session_vars, conc, backend, store>>

\* discover_events returns.
discover_events_returns ==
    /\ call.fn = "discover_events"
    /\ ~call.returned
    /\ call' = [call EXCEPT !.returned = TRUE, !.events = DiscoverEvents(call.titles)]
    /\ UNCHANGED <<session_vars, conc, backend, store>>

\* get_llama_response limits the search text it puts into the prompt
\* (telegram_bot.py:2664-2669).
truncate_context_returns ==
    /\ call.fn = "truncate_context"
    /\ ~call.returned
    /\ call' = [call EXCEPT !.returned = TRUE, !.inserted = TruncateContext(call.context)]
    /\ UNCHANGED <<session_vars, conc, backend, store>>

NextFn ==
    \/ discover_events_returns
    \/ truncate_context_returns
    \/ should_search_returns
    \/ classify_intent_returns
    \/ classify_intent_with_ai_returns
    \/ get_dynamic_response_config_returns

SpecFn == InitFn /\ [][NextFn]_vars

----------------------------------------------------------------------------
(* get_llama_response with several calls of one user in flight at once.    *)
(* A call runs without interruption from one await to the next; all the    *)
(* awaits of a call (search, the race) lie between the prune at its start  *)
(* and the append at its end, so a call is two steps: it gets the session, *)
(* takes the list the session refers to and prunes it; later it appends    *)
(* its pair to the list it holds and stores that list in the session.      *)
(* The code takes no lock.  Python lists are objects: heap holds them,     *)
(* session is the index of the list session['conversation_history'] refers *)
(* to, local[c] the index of the list call c holds in conversation_history.*)

\* Bound of the model: how many calls are in flight at once.
MaxInFlight == 3

InFlightCalls == 1..MaxInFlight

\* A stored turn of the message m (the messages before the run are numbered
\* below 1).
StoredTurn(r, m) == [role |-> r, msg |-> m]

\* The pair of turns of the message m.
StoredPair(m) == <<StoredTurn("user", m), StoredTurn("assistant", m)>>

\* The history n earlier messages leave behind, the oldest first.
RECURSIVE EarlierHistory(_)
EarlierHistory(n) ==
    IF n = 0 THEN <<>> ELSE StoredPair(1 - n) \o EarlierHistory(n - 1)

\* Histories a session holds when the calls start: one pair below the limit,
\* at the limit, and one pair over it (as the last call left it).
EarlierHistories ==
    { EarlierHistory(n) : n \in {MAX_HISTORY - 1, MAX_HISTORY, MAX_HISTORY + 1} }

InitConcurrent ==
    /\ user_sessions = [u \in Users |-> NoSession]
    /\ nother = 0
    /\ pc = "idle"
    /\ uid = 1
    /\ user_query = NoQuery
    /\ conversation_history = <<>>
    /\ pruned = FALSE
    /\ search_results = NoText
    /\ search_sources = <<>>
    /\ user_content = NoContent
    /\ messages = <<>>
    /\ attempted = <<>>
    /\ last_ret = NoText
    /\ last_net = "none"
    /\ instant_result = NoText
    /\ tasks = [b \in Backends |-> "none"]
    /\ race_error = ""
    /\ pending = {}
    /\ provider = ""
    /\ ret = NoReturn
    /\ call = NoCall
    /\ \E h \in EarlierHistories :
         conc = [heap |-> <<h>>, session |-> 1, initial |-> h,
                 local |-> [c \in InFlightCalls |-> 0],
                 pc |-> [c \in InFlightCalls |-> "new"],
                 won |-> [c \in InFlightCalls |-> FALSE],
                 clears |-> 0, cleared |-> {}]
    /\ backend = NoBackend
    /\ store = NoStore

\* The call c starts: conversation_history = session.get(...); when the list is
\* too long the slice is a new list, which the session is made to refer to.
call_starts(c) ==
    /\ conc.pc[c] = "new"
    /\ LET h == conc.heap[conc.session]
       IN IF Len(h) > MAX_HISTORY * 2
          THEN conc' = [conc EXCEPT !.heap = Append(@, Prune(h)),
                                    !.session = Len(conc.heap) + 1,
                                    !.local[c] = Len(conc.heap) + 1,
                                    !.pc[c] = "flight"]
          ELSE conc' = [conc EXCEPT !.local[c] = conc.session,
                                    !.pc[c] = "flight"]
    /\ UNCHANGED <<session_vars, call, backend, store>>

\* The call c ends.  When the race has produced an answer the pair is
\* appended to the list the call holds and the session is made to refer to
\* that list; when the race has failed the call returns the error string and
\* touches nothing.
call_ends(c, ok) ==
    /\ conc.pc[c] = "flight"
    /\ IF ok
       THEN conc' = [conc EXCEPT !.heap[conc.local[c]] = @ \o StoredPair(c),
                                 !.session = conc.local[c],
                                 !.pc[c] = "done",
                                 !.won[c] = TRUE]
       ELSE conc' = [conc EXCEPT !.pc[c] = "done"]
    /\ UNCHANGED <<session_vars, call, backend, store>>

NextConcurrent ==
    \/ \E c \in InFlightCalls : call_starts(c)
    \/ \E c \in InFlightCalls, ok \in BOOLEAN : call_ends(c, ok)

SpecConcurrent == InitConcurrent /\ [][NextConcurrent]_vars

\* Bound of the model: how many times the history is cleared in one run.
MaxClears == 1

\* clear_user_history(u) (telegram_bot.py:1035-1047) while calls of the user
\* may be in flight: the session is made to refer to a new, empty list.
\* cleared collects the turns that were in the history when it was cleared.
clear_user_history_in_flight ==
    /\ conc.clears < MaxClears
    /\ conc' = [conc EXCEPT !.heap = Append(@, <<>>),
                            !.session = Len(conc.heap) + 1,
                            !.clears = @ + 1,
                            !.cleared = @ \cup { conc.heap[conc.session][i] :
                                                   i \in 1..Len(conc.heap[conc.session]) }]
    /\ UNCHANGED <<session_vars, call, backend, store>>

NextClear ==
    \/ \E c \in InFlightCalls : call_starts(c)
    \/ \E c \in InFlightCalls, ok \in BOOLEAN : call_ends(c, ok)
    \/ clear_user_history_in_flight

\* The calls of one user with a clear of the history among them.
SpecClear == InitConcurrent /\ [][NextClear]_vars

\* The orders in which the calls can be processed one at a time.
Orders ==
    { o \in [InFlightCalls -> InFlightCalls] :
        \A a, b \in InFlightCalls : a # b => o[a] # o[b] }

\* The history after the calls o[i], o[i+1], ... have been processed one at a
\* time on the history h: each prunes, then appends its pair when it has an
\* answer.
RECURSIVE OneAtATime(_, _, _, _)
OneAtATime(h, o, i, won) ==
    IF i > MaxInFlight THEN h
    ELSE OneAtATime(IF won[o[i]] THEN Prune(h) \o StoredPair(o[i]) ELSE Prune(h),
                    o, i + 1, won)

\* The history of the session.
SessionHistory == conc.heap[conc.session]

AllCallsDone ==
    /\ DOMAIN conc.pc = InFlightCalls
    /\ \A c \in InFlightCalls : conc.pc[c] = "done"

----------------------------------------------------------------------------
(* One call of a generation backend: call_groq_api                          *)
(* (telegram_bot.py:2428-2507) and call_cerebras_api (2510-2559).  The call *)
(* is at the request of the attempt backend.attempt with the model variant  *)
(* backend.model; log has one entry per request sent: the variant, the      *)
(* attempt, what came back and the seconds slept after it (0 when the code  *)
(* does not sleep).                                                         *)

\* models_to_try of call_groq_api; call_cerebras_api has the one model it is given.
GroqModels == <<"moonshotai/kimi-k2-instruct-0905", "openai/gpt-oss-120b", "openai/gpt-oss-20b">>
CerebrasModels == <<"llama-3.3-70b">>

ModelsOf(name) == IF name = "groq" THEN GroqModels ELSE CerebrasModels

\* retries: int = 2 (call_groq_api), retries: int = 3 (call_cerebras_api)
GroqRetries == 2
CerebrasRetries == 3

RetriesOf(name) == IF name = "groq" THEN GroqRetries ELSE CerebrasRetries

\* What one request comes back with: a response with a status code (body
\* says whether data['choices'][0]['message']['content'] can be read), a
\* httpx.TimeoutException or another exception.
HttpResponse(status, body) == [kind |-> "response", status |-> status, body |-> body]
HttpTimeout == [kind |-> "timeout", status |-> 0, body |-> FALSE]
HttpError == [kind |-> "error", status |-> 0, body |-> FALSE]

RequestOutcomes ==
    { HttpResponse(200, TRUE), HttpResponse(200, FALSE), HttpResponse(429, FALSE),
      HttpResponse(400, FALSE), HttpResponse(401, FALSE), HttpResponse(500, FALSE),
      HttpResponse(503, FALSE), HttpTimeout, HttpError }

\* wait_time = 1 whatever the attempt
BackoffFixed(attempt) == 1

\* wait_time = 2 ** attempt
Backoff(attempt) == 2 ^ attempt

\* A backend call before its first request.
BackendStart(name) ==
    [name |-> name, pc |-> "request", model |-> 1, attempt |-> 0, log |-> <<>>,
     last_error |-> "None", result |-> "None"]

\* One entry of the log.
Sent(b, out, wait) == [model |-> b.model, attempt |-> b.attempt, out |-> out, wait |-> wait]

\* raise Exception(last_error or "... failed after all retries ...")
RaiseAfterLoops(b) ==
    [b EXCEPT !.pc = "raised",
              !.result = IF b.last_error = "None" THEN "failed after all retries"
                         ELSE b.last_error]

\* The loop over the models starting the same model again.
NextModelAgain(b) == [b EXCEPT !.attempt = 0]

\* The loop over the models goes on: the next model from its attempt 0, or
\* the raise after the loops when there is none.
NextModel(b) ==
    IF b.model < Len(ModelsOf(b.name))
    THEN [b EXCEPT !.model = b.model + 1, !.attempt = 0]
    ELSE RaiseAfterLoops(b)

\* The loop over the attempts giving up the model after one attempt.
NextAttemptNextVariant(b) == NextModel(b)

\* The loop over the attempts goes on: the next attempt of this model, or the
\* end of the loop.
NextAttempt(b) ==
    IF b.attempt + 1 < RetriesOf(b.name)
    THEN [b EXCEPT !.attempt = b.attempt + 1]
    ELSE NextModel(b)

\* The body of the attempt loop of call_groq_api on the outcome out.
GroqAttempt(b, out) ==
    IF out.kind = "timeout"
    THEN NextAttempt([b EXCEPT !.log = Append(@, Sent(b, out, Backoff(b.attempt))),
                               !.last_error = "Groq timeout"])
    ELSE IF out.kind = "error" \/ (out.status = 200 /\ ~out.body)
    THEN NextAttempt([b EXCEPT !.log = Append(@, Sent(b, out, 1)),
                               !.last_error = "exception"])
    ELSE IF out.status = 200
    THEN [b EXCEPT !.log = Append(@, Sent(b, out, 0)), !.pc = "returned",
                   !.result = "response_text"]
    ELSE IF out.status = 429
    THEN NextAttempt([b EXCEPT !.log = Append(@, Sent(b, out, Backoff(b.attempt)))])
    ELSE IF out.status \in {400, 503}
    THEN NextModel([b EXCEPT !.log = Append(@, Sent(b, out, 0))])
    ELSE NextAttempt([b EXCEPT !.log = Append(@, Sent(b, out, 0)),
                               !.last_error = "Groq API Error"])

\* The body of the attempt loop of call_cerebras_api on the outcome out.
CerebrasAttempt(b, out) ==
    IF out.kind = "timeout"
    THEN NextAttempt([b EXCEPT !.log = Append(@, Sent(b, out, Backoff(b.attempt))),
                               !.last_error = "Cerebras timeout"])
    ELSE IF out.kind = "error" \/ (out.status = 200 /\ ~out.body)
    THEN NextAttempt([b EXCEPT !.log = Append(@, Sent(b, out, 1)),
                               !.last_error = "exception"])
    ELSE IF out.status = 200
    THEN [b EXCEPT !.log = Append(@, Sent(b, out, 0)), !.pc = "returned",
                   !.result = "response_text"]
    ELSE IF out.status = 429
    THEN NextAttempt([b EXCEPT !.log = Append(@, Sent(b, out, Backoff(b.attempt)))])
    ELSE NextAttempt([b EXCEPT !.log = Append(@, Sent(b, out, 0)),
                               !.last_error = "Cerebras API Error"])

InitBackend ==
    /\ user_sessions = [u \in Users |-> NoSession]
    /\ nother = 0
    /\ pc = "idle"
    /\ uid = 1
    /\ user_query = NoQuery
    /\ conversation_history = <<>>
    /\ pruned = FALSE
    /\ search_results = NoText
    /\ search_sources = <<>>
    /\ user_content = NoContent
    /\ messages = <<>>
    /\ attempted = <<>>
    /\ last_ret = NoText
    /\ last_net = "none"
    /\ instant_result = NoText
    /\ tasks = [b \in Backends |-> "none"]
    /\ race_error = ""
    /\ pending = {}
    /\ provider = ""
    /\ ret = NoReturn
    /\ call = NoCall
    /\ conc = NoConc
    /\ backend \in { BackendStart(name) : name \in Backends }
    /\ store = NoStore

\* call_groq_api sends a request and handles what comes back.
call_groq_api(out) ==
    /\ backend.name = "groq"
    /\ backend.pc = "request"
    /\ backend' = GroqAttempt(backend, out)
    /\ UNCHANGED <<session_vars, call, conc, store>>

\* call_cerebras_api sends a request and handles what comes back.
call_cerebras_api(out) ==
    /\ backend.name = "cerebras"
    /\ backend.pc = "request"
    /\ backend' = CerebrasAttempt(backend, out)
    /\ UNCHANGED <<session_vars, call, conc, store>>

NextBackend ==
    \/ \E out \in RequestOutcomes : call_groq_api(out)
    \/ \E out \in RequestOutcomes : call_cerebras_api(out)

SpecBackend == InitBackend /\ [][NextBackend]_vars

\* Every request a backend call sends terminates, with a response, a timeout
\* (httpx timeout of 45 and 30 seconds) or an error, and every sleep ends: a
\* call that is not over takes its next step.
SpecBackendFair == SpecBackend /\ WF_vars(NextBackend)

----------------------------------------------------------------------------
(* The session store with all the fields of a session                      *)
(* (telegram_bot.py:938-1047) and the handlers that change sessions.  The  *)
(* application handles one update at a time (main builds the Application   *)
(* without concurrent_updates), so a handler is one step.  store.trace is  *)
(* what the handler of the last update did to the store, in order:         *)
(* "create" a session, "repair" a field in get_user_session, "mutate" a    *)
(* field, "save" (a save_user_data call).                                  *)

UserIds == {1, 2}

\* A key the dict does not have, a JSON value that is not a string, and a
\* string that is empty or blank.
Missing == "<missing>"
NotAString == "<not a string>"
Blank == ""

DEFAULT_SYSTEM_INSTRUCTION == "DEFAULT_SYSTEM_INSTRUCTION"
DEFAULT_MODEL == GroqModels[1]

\* valid_models of get_user_session
valid_models == {GroqModels[1], GroqModels[2], GroqModels[3], CerebrasModels[1], DEFAULT_MODEL}

\* Bound of the model: the highest message_count a session reaches.
MaxMessageCount == 1

\* No session under the user id.
NoStoreSession ==
    [exists |-> FALSE, message_count |-> -1, last_message_time_str |-> Missing,
     last_message_time_dt |-> Missing, username |-> Missing, language |-> Missing,
     created_at |-> Missing, system_prompt |-> Missing, model_name |-> Missing,
     has_history |-> FALSE, conversation_history |-> <<>>, preferences |-> Missing]

\* The dict get_user_session creates (telegram_bot.py:994-1005)
CreatedSession ==
    [exists |-> TRUE, message_count |-> 0, last_message_time_str |-> "None",
     last_message_time_dt |-> "None", username |-> "None", language |-> "en",
     created_at |-> "now", system_prompt |-> DEFAULT_SYSTEM_INSTRUCTION,
     model_name |-> DEFAULT_MODEL,
     has_history |-> TRUE, conversation_history |-> <<>>, preferences |-> "defaults"]

\* A record of the data file as save_user_data writes it (seven keys, no
\* history, no preferences), with the system prompt sp and the model name mn.
FileRecord(sp, mn) ==
    [exists |-> TRUE, message_count |-> 1, last_message_time_str |-> "saved",
     last_message_time_dt |-> Missing, username |-> "name", language |-> "en",
     created_at |-> "saved", system_prompt |-> sp, model_name |-> mn,
     has_history |-> FALSE, conversation_history |-> <<>>, preferences |-> Missing]

WellFormedRecord == FileRecord("You are a helpful pirate.", DEFAULT_MODEL)

\* What the data file holds under the key of a user: nothing, a JSON object,
\* or a value that is not an object (a list, a number, null, a string).
Absent == [kind |-> "absent", v |-> NoStoreSession]
Object(v) == [kind |-> "object", v |-> v]
NotAMapping == [kind |-> "not_mapping", v |-> NoStoreSession]

\* The data files: an unreadable one (not there, or not JSON) and the
\* readable ones.  bad_key says that the file also has a record under a key
\* that is not an integer.
DataFile(readable, entries, bad_key) ==
    [readable |-> readable, entries |-> entries, bad_key |-> bad_key]

DataFiles ==
    { DataFile(FALSE, [u \in UserIds |-> Absent], FALSE) }
    \cup
    { DataFile(TRUE, [u \in UserIds |-> IF u = 1 THEN e1 ELSE e2], FALSE) :
        e1 \in { Absent, Object(WellFormedRecord),
                 Object(FileRecord(Missing, DEFAULT_MODEL)),
                 Object(FileRecord(NotAString, DEFAULT_MODEL)),
                 Object(FileRecord(Blank, DEFAULT_MODEL)),
                 Object(FileRecord("You are a helpful pirate.", "gemini-pro")),
                 Object(FileRecord("You are a helpful pirate.", Missing)) },
        e2 \in { Absent, Object(WellFormedRecord) } }
    \cup
    { DataFile(TRUE, [u \in UserIds |-> IF u = w THEN NotAMapping
                                        ELSE Object(WellFormedRecord)], FALSE) :
        w \in UserIds }
    \cup
    { DataFile(TRUE, [u \in UserIds |-> Object(WellFormedRecord)], TRUE) }

\* The loop body of load_user_data for one record (telegram_bot.py:974-979)
LoadRecord(v) ==
    IF v.system_prompt = Missing \/ v.system_prompt = NotAString
    THEN [v EXCEPT !.system_prompt = DEFAULT_SYSTEM_INSTRUCTION]
    ELSE v

\* load_user_data (telegram_bot.py:965-986).  int(k) raises ValueError for a
\* key that is not an integer, the membership test or the item assignment
\* raises TypeError for a value that is not a mapping; the except clauses
\* around the whole loop return {}.
load_user_data(f) ==
    IF ~f.readable THEN [u \in UserIds |-> NoStoreSession]
    ELSE IF f.bad_key \/ \E u \in UserIds : f.entries[u].kind = "not_mapping"
    THEN [u \in UserIds |-> NoStoreSession]
    ELSE [u \in UserIds |->
             IF f.entries[u].kind = "absent" THEN NoStoreSession
             ELSE LoadRecord(f.entries[u].v)]

\* The store after main has loaded the file f (telegram_bot.py:3771-3772)
LoadedStore(f) ==
    [file |-> f, loaded |-> load_user_data(f), user_sessions |-> load_user_data(f),
     op |-> "main", actor |-> 0, trace |-> <<>>, result |-> "None"]

\* The handler op of an update of the user u starts.
Starts(st, op, u) == [st EXCEPT !.op = op, !.actor = u, !.trace = <<>>, !.result = "None"]

Event(st, e) == [st EXCEPT !.trace = Append(@, e)]

\* save_user_data()
save_user_data(st) == Event(st, "save")

\* session.get(key, default)
Get(v, default) == IF v = Missing THEN default ELSE v

\* Every prompt taken to be valid.
AnyPromptValid(sp) == TRUE

\* isinstance(system_prompt, str) and system_prompt.strip()
ValidPrompt(sp) == sp # NotAString /\ sp # Blank

\* get_user_session creating the session whether it is there or not.
GetUserSessionRecreating(st, u) ==
    save_user_data(Event([st EXCEPT !.user_sessions[u] = CreatedSession], "create"))

\* get_user_session (telegram_bot.py:989-1032)
GetUserSession(st, u) ==
    LET st1 == IF ~st.user_sessions[u].exists
               THEN save_user_data(Event([st EXCEPT !.user_sessions[u] = CreatedSession],
                                         "create"))
               ELSE st
        st2 == IF ~st1.user_sessions[u].has_history
               THEN Event([st1 EXCEPT !.user_sessions[u].has_history = TRUE,
                                      !.user_sessions[u].conversation_history = <<>>],
                          "repair")
               ELSE st1
        st3 == IF st2.user_sessions[u].preferences = Missing
               THEN Event([st2 EXCEPT !.user_sessions[u].preferences = "defaults"], "repair")
               ELSE st2
        st4 == IF Get(st3.user_sessions[u].model_name, DEFAULT_MODEL) \notin valid_models
               THEN Event([st3 EXCEPT !.user_sessions[u].model_name = DEFAULT_MODEL], "repair")
               ELSE st3
        st5 == IF ~ValidPrompt(Get(st4.user_sessions[u].system_prompt,
                                   DEFAULT_SYSTEM_INSTRUCTION))
               THEN Event([st4 EXCEPT !.user_sessions[u].system_prompt =
                                          DEFAULT_SYSTEM_INSTRUCTION], "repair")
               ELSE st4
    IN st5

\* clear_user_history emptying the history of every user.
ClearEveryHistory(st, u) ==
    IF st.user_sessions[u].exists
    THEN save_user_data(Event(
             [st EXCEPT !.user_sessions =
                            [w \in UserIds |-> [st.user_sessions[w] EXCEPT
                                                   !.conversation_history = <<>>]],
                        !.result = "True"], "mutate"))
    ELSE [st EXCEPT !.result = "False"]

\* clear_user_history resetting the counter as well.
ClearHistoryAndCount(st, u) ==
    IF st.user_sessions[u].exists
    THEN save_user_data(Event(
             [st EXCEPT !.user_sessions[u].has_history = TRUE,
                        !.user_sessions[u].conversation_history = <<>>,
                        !.user_sessions[u].message_count = 0,
                        !.result = "True"], "mutate"))
    ELSE [st EXCEPT !.result = "False"]

\* clear_user_history (telegram_bot.py:1035-1047)
ClearUserHistory(st, u) ==
    IF st.user_sessions[u].exists
    THEN save_user_data(Event(
             [st EXCEPT !.user_sessions[u].has_history = TRUE,
                        !.user_sessions[u].conversation_history = <<>>,
                        !.result = "True"], "mutate"))
    ELSE [st EXCEPT !.result = "False"]

InitStore ==
    /\ user_sessions = [u \in Users |-> NoSession]
    /\ nother = 0
    /\ pc = "idle"
    /\ uid = 1
    /\ user_query = NoQuery
    /\ conversation_history = <<>>
    /\ pruned = FALSE
    /\ search_results = NoText
    /\ search_sources = <<>>
    /\ user_content = NoContent
    /\ messages = <<>>
    /\ attempted = <<>>
    /\ last_ret = NoText
    /\ last_net = "none"
    /\ instant_result = NoText
    /\ tasks = [b \in Backends |-> "none"]
    /\ race_error = ""
    /\ pending = {}
    /\ provider = ""
    /\ ret = NoReturn
    /\ call = NoCall
    /\ conc = NoConc
    /\ backend = NoBackend
    /\ store \in { LoadedStore(f) : f \in DataFiles }

\* handle_message (telegram_bot.py:3360-3478).  outcome says how the update
\* goes: the "Processing..." reply cannot be sent (the exception leaves the
\* handler before its try), or get_llama_response has an answer or has none
\* (it returns an error text) and the text can or cannot be sent to the user.
HandleMessageOutcomes ==
    { "processing_reply_fails", "answered", "not_answered",
      "answered_send_fails", "not_answered_send_fails" }

handle_message(u, outcome) ==
    LET st0 == GetUserSession(Starts(store, "handle_message", u), u)
        mc  == st0.user_sessions[u].message_count
        st1 == Event([st0 EXCEPT !.user_sessions[u].last_message_time_dt = "now",
                                 !.user_sessions[u].last_message_time_str = "now",
                                 !.user_sessions[u].message_count =
                                     (IF mc = -1 THEN 0 ELSE mc) + 1,
                                 !.user_sessions[u].username = "name"], "mutate")
        \* get_llama_response: the session again, the prune, the append
        st2 == GetUserSession(st1, u)
        h   == st2.user_sessions[u].conversation_history
        st3 == IF Len(h) > MAX_HISTORY * 2
               THEN Event([st2 EXCEPT !.user_sessions[u].conversation_history = Prune(h)],
                          "mutate")
               ELSE st2
        st4 == IF outcome \in {"answered", "answered_send_fails"}
               THEN Event([st3 EXCEPT !.user_sessions[u].conversation_history =
                                          @ \o <<"user", "assistant">>], "mutate")
               ELSE st3
        st5 == IF outcome \in {"answered", "not_answered"} THEN save_user_data(st4) ELSE st4
        \* the messages of u handled since the file was loaded
        handled == (IF store.user_sessions[u].exists
                    THEN store.user_sessions[u].message_count ELSE 0)
                   - (IF store.loaded[u].exists THEN store.loaded[u].message_count ELSE 0)
    IN  /\ handled < MaxMessageCount
        /\ store' = (IF outcome = "processing_reply_fails" THEN st1 ELSE st5)
        /\ UNCHANGED <<session_vars, call, conc, backend>>

\* start_command (telegram_bot.py:2815-2848)
start_command(u) ==
    /\ LET st0 == GetUserSession(Starts(store, "start_command", u), u)
       IN store' = Event([st0 EXCEPT !.user_sessions[u].username = "name"], "mutate")
    /\ UNCHANGED <<session_vars, call, conc, backend>>

\* stats_command, and like it every handler that gets the session and only
\* reads it (about_command, current_model_command, model_command,
\* history_command, search_command, the buttons 'about', 'stats',
\* 'switch_model', 'model_info').
stats_command(u) ==
    /\ store' = GetUserSession(Starts(store, "stats_command", u), u)
    /\ UNCHANGED <<session_vars, call, conc, backend>>

\* clear_command and the button 'clear_history' (telegram_bot.py:3000-3014,
\* 3562-3566)
clear_command(u) ==
    /\ store' = ClearUserHistory(Starts(store, "clear_command", u), u)
    /\ UNCHANGED <<session_vars, call, conc, backend>>

\* system_command (telegram_bot.py:3154-3193).  how: the prompt is only
\* shown; the confirmation cannot be sent (the exception leaves the handler
\* before the prompt is set); the prompt is set and the last reply can or
\* cannot be sent.
SystemCommandOutcomes == { "show", "reply_fails", "set", "set_last_reply_fails" }

system_command(u, new_prompt, how) ==
    LET st0 == GetUserSession(Starts(store, "system_command", u), u)
        st1 == Event([st0 EXCEPT !.user_sessions[u].system_prompt = new_prompt], "mutate")
        st2 == ClearUserHistory(st1, u)
        st3 == IF how = "set" /\ st2.result = "True" THEN save_user_data(st2) ELSE st2
    IN  /\ store' = (IF how \in {"show", "reply_fails"} THEN st0 ELSE st3)
        /\ UNCHANGED <<session_vars, call, conc, backend>>

NextStore ==
    \/ \E u \in UserIds, outcome \in HandleMessageOutcomes : handle_message(u, outcome)
    \/ \E u \in UserIds : start_command(u)
    \/ \E u \in UserIds : stats_command(u)
    \/ \E u \in UserIds : clear_command(u)
    \/ \E u \in UserIds, new_prompt \in {DEFAULT_SYSTEM_INSTRUCTION, "Talk like a robot."},
          how \in SystemCommandOutcomes : system_command(u, new_prompt, how)

SpecStore == InitStore /\ [][NextStore]_vars

----------------------------------------------------------------------------
(* Properties *)

\* C1: in every reachable state, also right after a pair of turns has been
\* appended, the history of a user holds at most 2 * MAX_HISTORY (20) entries.
\* The code prunes when a call starts and appends when it ends, so this
\* statement is violated: see C1_OverLimit.
C1_HistoryWithinLimit ==
    \A u \in Users : Len(user_sessions[u].conversation_history) <= 2 * MAX_HISTORY

\* C1: a call has returned and left 22 entries in the session.
C1_OverLimit ==
    /\ pc = "done"
    /\ ret.kind = "str"
    /\ Len(user_sessions[uid].conversation_history) = 2 * MAX_HISTORY + 2

\* C2: in every reachable state the history of a user has even length and
\* alternates user, assistant, user, assistant, ... from a user turn on; and
\* the pruning step of a call drops an even number of entries from the front,
\* so that no assistant turn loses the user turn in front of it.
C2_PairsAlternate ==
    /\ [](\A u \in Users :
            LET h == user_sessions[u].conversation_history
            IN  /\ Len(h) % 2 = 0
                /\ \A i \in 1..Len(h) :
                       h[i].role = (IF i % 2 = 1 THEN "user" ELSE "assistant"))
    /\ [][ (pc \in {"idle", "done"} /\ pc' \notin {"idle", "done"}) =>
             LET old == user_sessions[uid'].conversation_history
                 new == user_sessions'[uid'].conversation_history
                 d   == Len(old) - Len(new)
             IN  /\ d >= 0
                 /\ d % 2 = 0
                 /\ new = SubSeq(old, d + 1, Len(old))
                 /\ conversation_history' = new
                 /\ pruned' = (d > 0) ]_vars

\* C2: a call has just pruned the history of its user.
C2_Pruned ==
    /\ pruned
    /\ pc \notin {"idle", "done"}
    /\ Len(user_sessions[uid].conversation_history) = 2 * MAX_HISTORY

\* C3: a call whose generation race succeeds appends exactly one user turn
\* and, right after it, exactly one assistant turn at the end of the history
\* of its user as the pruning step of the call left it, and changes no
\* earlier entry.
C3_AppendsOnePair ==
    [][ (pc \in {"race_wait1", "race_wait2"} /\ pc' = "done" /\ provider' # "") =>
         LET old == user_sessions[uid].conversation_history
             new == user_sessions'[uid].conversation_history
         IN  /\ old = conversation_history
             /\ Len(new) = Len(old) + 2
             /\ SubSeq(new, 1, Len(old)) = old
             /\ new[Len(old) + 1].role = "user"
             /\ new[Len(old) + 2].role = "assistant" ]_vars

\* C3: a call that pruned the history has finished with a won race and a
\* history of several pairs.
C3_Appended ==
    /\ pc = "done"
    /\ provider \in Backends
    /\ pruned
    /\ Len(user_sessions[uid].conversation_history) >= 4

\* C4: a turn answered with a non-empty search result (of the event
\* aggregator or of smart_search) appends only the two markers
\* "[Search query: <query>]" and "[Answered with real-time search data]", and
\* in no reachable state does an entry of a history hold search text or the
\* prompt that was built around it.
C4_OnlyMarkersStored ==
    /\ [](\A u \in Users :
            LET h == user_sessions[u].conversation_history
            IN  \A i \in 1..Len(h) :
                    /\ h[i].content.kind \in {"query", "search_marker", "answered_marker", "response"}
                    /\ h[i].content.search.origin = "None"
                    /\ h[i].content.search.len = 0)
    /\ [][ (pc \in {"race_wait1", "race_wait2"} /\ pc' = "done" /\ provider' # ""
             /\ search_results.origin # "None" /\ search_results.len > 0) =>
             LET new == user_sessions'[uid].conversation_history
                 n   == Len(user_sessions[uid].conversation_history)
             IN  /\ Len(new) = n + 2
                 /\ new[n + 1] = [role |-> "user",
                                  content |-> [kind |-> "search_marker",
                                               body |-> user_query.text,
                                               search |-> NoText]]
                 /\ new[n + 2] = [role |-> "assistant",
                                  content |-> [kind |-> "answered_marker",
                                               body |-> "",
                                               search |-> NoText]] ]_vars

\* C4: a turn answered with the text of the event aggregator has been stored.
C4_SearchTurnStored ==
    /\ pc = "done"
    /\ provider \in Backends
    /\ search_results.origin = "events"
    /\ user_content.kind = "enhanced"
    /\ user_content.search = search_results
    /\ LET h == user_sessions[uid].conversation_history
       IN  /\ Len(h) >= 2
           /\ h[Len(h) - 1].content.kind = "search_marker"
           /\ h[Len(h)].content.kind = "answered_marker"

\* C5: when race_ai_models wakes up with one task finished successfully and
\* the other still running, it returns the result of the finished task and
\* cancels the other one; a cancelled task never finishes with a result or an
\* error; the call returns one response and appends one pair of turns, and
\* nothing is returned or appended after the call has ended.
C5_FirstSuccessWins ==
    /\ [][ (pc = "race_wait1" /\ pc' # "race_wait1"
             /\ (\E b \in Backends : tasks[b] = "ok")
             /\ (\E b \in Backends : tasks[b] = "running")) =>
             /\ pc' = "done"
             /\ provider' \in Backends
             /\ tasks[provider'] = "ok"
             /\ tasks'[provider'] = "ok"
             /\ \A b \in Backends : tasks[b] = "running" => tasks'[b] = "cancelled"
             /\ ret'.kind = "str"
             /\ ret'.text = "42"
             /\ Len(user_sessions'[uid].conversation_history)
                    = Len(user_sessions[uid].conversation_history) + 2 ]_vars
    /\ [][ \A b \in Backends :
               tasks[b] = "cancelled" => tasks'[b] \notin {"ok", "failed"} ]_vars
    /\ [][ (pc = "done" /\ pc' = "done") =>
             /\ ret' = ret
             /\ provider' = provider
             /\ Len(user_sessions'[uid].conversation_history)
                    <= Len(user_sessions[uid].conversation_history) ]_vars

\* C5: a call has ended with the answer of one backend, the task of the other
\* one cancelled.
C5_OtherCancelled ==
    /\ pc = "done"
    /\ provider = "cerebras"
    /\ tasks["cerebras"] = "ok"
    /\ tasks["groq"] = "cancelled"
    /\ pending = {"groq"}

\* C6: when every task finished at the first wake-up has failed and a task
\* is still running, race_ai_models goes on waiting for it and returns its
\* result if it succeeds; the failure of the race reaches the caller only in
\* states where every task has finished with a failure.
C6_WaitsForRemaining ==
    /\ [][ (pc = "race_wait1" /\ pc' # "race_wait1"
             /\ (\A b \in Backends : tasks[b] \in {"failed", "running"})
             /\ (\E b \in Backends : tasks[b] = "running")) =>
             /\ pc' = "race_wait2"
             /\ ret'.kind = "none"
             /\ pending' = {b \in Backends : tasks[b] = "running"} ]_vars
    /\ [][ (pc = "race_wait2" /\ pc' # "race_wait2"
             /\ \E b \in pending : tasks[b] = "ok") =>
             /\ pc' = "done"
             /\ provider' \in pending
             /\ tasks[provider'] = "ok"
             /\ ret'.text = "42" ]_vars
    /\ []( (pc = "done" /\ (provider = "" \/ ret.text # "42")) =>
             \A b \in Backends : tasks[b] = "failed" )
    /\ []( \A b \in Backends : tasks[b] = "running" => ret.kind = "none" )

\* C6: the first task has failed, the race has gone on waiting and the
\* remaining task has succeeded.
C6_RemainingSucceeded ==
    /\ pc = "race_wait2"
    /\ race_error \in ErrBodies
    /\ tasks["groq"] = "failed"
    /\ tasks["cerebras"] = "ok"
    /\ pending = {"cerebras"}

C8_ErrorBodyNotShown ==
    (pc = "done" /\ \A b \in Backends : tasks[b] = "failed") =>
        /\ race_error \in ErrBodies
        /\ \A e \in ErrBodies :
               race_error = e =>
                   /\ ret = [kind |-> "str",
                             text |-> "Error connecting to AI Service. Both Groq and Cerebras failed."]
                   /\ ret.text # e
        /\ provider = ""

\* C8: both backends have failed and the race caught the text of an HTTP
\* error body.
C8_ExhaustedWithBody ==
    /\ pc = "done"
    /\ \A b \in Backends : tasks[b] = "failed"
    /\ race_error = "Groq API Error 500: upstream body"
    /\ ret.kind = "str"

\* C9: with every backend enabled and configured smart_search attempts the
\* steps in the order Tavily, Google, DuckDuckGo Instant, DuckDuckGo Full,
\* Wikipedia, Jina: a step is entered only when the call that has just come
\* back gave no adequate result (None, or at most 50 characters) and every
\* step before it has been attempted; after an adequate result no later step
\* is entered; the result of a step comes back with the label of that step,
\* so a result of the 4th step comes with "DuckDuckGo" and with steps 1 to 3
\* attempted before it.  The supplementary call of the instant-answer step
\* counts as part of step 3.
C9_ChainInOrder ==
    /\ [](LET order  == <<"tavily", "google", "instant", "ddgs", "wiki", "jina">>
              labels == <<"Tavily AI Search", "Google Search", "DuckDuckGo Instant",
                          "DuckDuckGo", "Wikipedia", "Jina AI">>
              InChain(x) == x \in {order[k] : k \in 1..6}
              c == SelectSeq(attempted, InChain)
          IN  /\ Len(c) <= 6
              /\ c = SubSeq(order, 1, Len(c))
              /\ \A k \in 1..6 :
                     search_results.origin = order[k] =>
                         /\ search_sources = <<labels[k]>>
                         /\ c = SubSeq(order, 1, k)
                         /\ search_results.len > 50)
    /\ [][ LET InChain(x) == x \in {"tavily", "google", "instant", "ddgs", "wiki", "jina"}
           IN  (Len(SelectSeq(attempted', InChain)) > Len(SelectSeq(attempted, InChain))
                /\ ~(pc \in {"idle", "done"})) =>
                   /\ ~(last_ret'.origin # "None" /\ last_ret'.len > 50)
                   /\ pc' = attempted'[Len(attempted')] ]_vars
    /\ [][ LET InChain(x) == x \in {"tavily", "google", "instant", "ddgs", "wiki", "jina"}
           IN  ((InChain(pc) \/ pc = "supp")
                /\ last_ret'.origin # "None" /\ last_ret'.len > 50) =>
                   /\ SelectSeq(attempted', InChain) = SelectSeq(attempted, InChain)
                   /\ pc' \in (IF pc = "instant" /\ last_ret'.len < 300
                                THEN {"supp"} ELSE {"race_wait1"}) ]_vars
    /\ [][ (pc = "supp" /\ pc' # "supp") =>
             /\ pc' = "race_wait1"
             /\ search_results'.origin = "instant" ]_vars

\* C9: only the 4th step gave an adequate result; smart_search has returned
\* it with its label after attempting steps 1 to 3.
C9_FourthStepAnswers ==
    /\ pc = "race_wait1"
    /\ search_results.origin = "ddgs"
    /\ search_results = last_ret
    /\ search_sources = <<"DuckDuckGo">>
    /\ attempted = <<"tavily", "google", "instant", "ddgs">>

\* C10 as it is stated: an error or a timeout in any call of smart_search (the
\* time service, each of the six backends, the supplementary call of the
\* instant-answer step) counts as no result and the next step of the chain is
\* attempted (after the last step, smart_search returns None); smart_search
\* never raises.  The code does not go on after a failed supplementary call:
\* see C10_FailureIsNoResult.
C10_FailureGoesToNextStep ==
    [][ LET follower(p) == CASE p = "time"    -> "tavily"
                             [] p = "tavily"  -> "google"
                             [] p = "google"  -> "instant"
                             [] p = "instant" -> "ddgs"
                             [] p = "supp"    -> "ddgs"
                             [] p = "ddgs"    -> "wiki"
                             [] p = "wiki"    -> "jina"
                             [] p = "jina"    -> "race_wait1"
            calls == {"time", "tavily", "google", "instant", "supp", "ddgs", "wiki", "jina"}
        IN  (pc \in calls) =>
                /\ pc' \in calls \cup {"race_wait1"}
                /\ ret' = ret
                /\ last_net' \in {"error", "timeout"} =>
                       /\ last_ret' = NoText
                       /\ pc' = follower(pc)
                       /\ pc = "jina" => search_results' = NoText ]_vars

\* C10, amended: an error or a timeout in the time service or in one of the
\* six backends counts as no result and the next step of the chain is
\* attempted (after the last step, smart_search returns None); an error or a
\* timeout in the supplementary call of the instant-answer step only leaves
\* out the supplementary text: the instant answer is returned as it is, with
\* the label "DuckDuckGo Instant", and no further step is attempted;
\* smart_search never raises.
C10_FailureIsNoResult ==
    [][ LET follower(p) == CASE p = "time"    -> "tavily"
                             [] p = "tavily"  -> "google"
                             [] p = "google"  -> "instant"
                             [] p = "instant" -> "ddgs"
                             [] p = "ddgs"    -> "wiki"
                             [] p = "wiki"    -> "jina"
                             [] p = "jina"    -> "race_wait1"
            calls == {"time", "tavily", "google", "instant", "supp", "ddgs", "wiki", "jina"}
        IN  (pc \in calls) =>
                /\ pc' \in calls \cup {"race_wait1"}
                /\ ret' = ret
                /\ (last_net' \in {"error", "timeout"} /\ pc # "supp") =>
                       /\ last_ret' = NoText
                       /\ pc' = follower(pc)
                       /\ pc = "jina" => search_results' = NoText
                /\ (last_net' \in {"error", "timeout"} /\ pc = "supp") =>
                       /\ last_ret' = NoText
                       /\ pc' = "race_wait1"
                       /\ attempted' = attempted
                       /\ search_results' = instant_result
                       /\ search_results'.merged = FALSE
                       /\ search_sources' = <<"DuckDuckGo Instant">> ]_vars

\* C10: the supplementary call has timed out after the first two backends
\* failed, and smart_search has returned the instant answer alone.
C10_SupplementFailed ==
    /\ pc = "race_wait1"
    /\ last_net = "timeout"
    /\ attempted = <<"tavily", "google", "instant", "supp">>
    /\ search_results.origin = "instant"
    /\ search_results.merged = FALSE
    /\ search_sources = <<"DuckDuckGo Instant">>

\* C11: smart_search returns (None, []) exactly when no call gave a result
\* its step accepts (a truthy text of the time service, a text of more than
\* 50 characters of a backend): that is after the last step, Jina, came back
\* without one, every step having been attempted.  Otherwise it returns a
\* non-empty text with a list of exactly one label, the label of the step
\* whose text it is (the instant-answer step for the instant answer with or
\* without the supplementary text).
C11_NoneOrOneLabel ==
    [][ LET calls  == {"time", "tavily", "google", "instant", "supp", "ddgs", "wiki", "jina"}
            label(o) == CASE o = "time"    -> "Time API"
                          [] o = "tavily"  -> "Tavily AI Search"
                          [] o = "google"  -> "Google Search"
                          [] o = "instant" -> "DuckDuckGo Instant"
                          [] o = "ddgs"    -> "DuckDuckGo"
                          [] o = "wiki"    -> "Wikipedia"
                          [] o = "jina"    -> "Jina AI"
            InChain(x) == x \in {"tavily", "google", "instant", "ddgs", "wiki", "jina"}
            accepted == IF pc = "time"
                        THEN last_ret'.origin # "None" /\ last_ret'.len > 0
                        ELSE last_ret'.origin # "None" /\ last_ret'.len > 50
        IN  (pc \in calls /\ pc' = "race_wait1") =>
                /\ (search_results' = NoText) <=> (search_sources' = <<>>)
                /\ (search_results' = NoText) <=> (pc = "jina" /\ ~accepted)
                /\ search_results' = NoText =>
                       SelectSeq(attempted', InChain)
                           = <<"tavily", "google", "instant", "ddgs", "wiki", "jina">>
                /\ search_results' # NoText =>
                       /\ search_results'.len > 0
                       /\ search_results'.origin = (IF pc = "supp" THEN "instant" ELSE pc)
                       /\ search_sources' = <<label(search_results'.origin)>>
                       /\ pc # "supp" => (accepted /\ search_results' = last_ret')
                       /\ pc # "time" => search_results'.len > 50 ]_vars

\* C11: smart_search has returned the instant answer with the supplementary
\* text merged into it, under the one label of the instant-answer step.
C11_MergedUnderOneLabel ==
    /\ pc = "race_wait1"
    /\ search_results.origin = "instant"
    /\ search_results.merged
    /\ last_ret.origin = "ddgs_extra"
    /\ search_sources = <<"DuckDuckGo Instant">>

C13_SearchExhaustionGoesOn ==
    /\ [][ (pc \in {"time", "tavily", "google", "instant", "supp", "ddgs", "wiki", "jina"}
             /\ pc' = "race_wait1" /\ search_results' = NoText) =>
             /\ user_content' = [kind |-> "query", body |-> user_query.text, search |-> NoText]
             /\ search_sources' = <<>>
             /\ \A b \in Backends : tasks'[b] = "running"
             /\ ret'.kind = "none" ]_vars
    /\ [][ (pc \in {"race_wait1", "race_wait2"} /\ pc' = "done" /\ provider' # ""
             /\ attempted # <<>> /\ search_results = NoText) =>
             LET new == user_sessions'[uid].conversation_history
                 n   == Len(user_sessions[uid].conversation_history)
             IN  /\ ret' = [kind |-> "str", text |-> "42"]
                 /\ Len(new) = n + 2
                 /\ new[n + 1] = [role |-> "user",
                                  content |-> [kind |-> "query",
                                               body |-> user_query.text,
                                               search |-> NoText]]
                 /\ new[n + 2] = [role |-> "assistant",
                                  content |-> [kind |-> "response",
                                               body |-> "Sure! 42",
                                               search |-> NoText]] ]_vars

\* C13: for an event query the event aggregator, the time service and all
\* six backends gave nothing, and the call has ended with an answer and the
\* plain pair stored.
C13_AnsweredWithoutSearchText ==
    /\ pc = "done"
    /\ provider \in Backends
    /\ user_query.event
    /\ attempted = <<"time", "tavily", "google", "instant", "ddgs", "wiki", "jina">>
    /\ search_results = NoText
    /\ ret.text = "42"
    /\ LET h == user_sessions[uid].conversation_history
       IN  /\ Len(h) >= 2
           /\ h[Len(h) - 1].content.kind = "query"
           /\ h[Len(h)].content.kind = "response"

\* C14: once all the calls of one user that were in flight at once have
\* returned, the history of the session is one that processing the same
\* messages one at a time, in some order, produces.  The code takes no lock
\* and the statement is violated: see C14_PairLost.
C14_Serialized ==
    AllCallsDone =>
        \E o \in Orders : SessionHistory = OneAtATime(conc.initial, o, 1, conc.won)

\* All calls have returned and the pair of a call that had an answer is not in
\* the history.
C14_PairLost ==
    /\ AllCallsDone
    /\ \E c \in InFlightCalls :
         /\ conc.won[c]
         /\ \A i \in 1..Len(SessionHistory) : SessionHistory[i].msg # c

\* C15: a 429 response never ends a backend call by itself.  The request of
\* attempt k that comes back with 429 is followed by a wait of 2^k seconds and
\* then by the next attempt of the same model variant, or, when k was the last
\* attempt of the variant, by attempt 0 of the next variant; the call fails on
\* a 429 only when that was the last attempt of the last variant, and a call
\* that met nothing but 429 fails only after all attempts of all variants.
C15_RateLimitBacksOffAndGoesOn ==
    [][ /\ ( /\ backend'.log # backend.log
             /\ backend'.log[Len(backend'.log)].out.status = 429 )
           => LET k == backend.attempt
                  m == backend.model
                  sent == backend'.log[Len(backend'.log)]
              IN /\ sent.model = m /\ sent.attempt = k
                 /\ sent.wait = 2 ^ k
                 /\ IF k + 1 < RetriesOf(backend.name)
                    THEN /\ backend'.pc = "request"
                         /\ backend'.model = m
                         /\ backend'.attempt = k + 1
                    ELSE IF m < Len(ModelsOf(backend.name))
                    THEN /\ backend'.pc = "request"
                         /\ backend'.model = m + 1
                         /\ backend'.attempt = 0
                    ELSE backend'.pc = "raised"
        /\ ( /\ backend'.pc = "raised"
             /\ \A i \in 1..Len(backend'.log) : backend'.log[i].out.status = 429 )
           => Len(backend'.log) = RetriesOf(backend.name) * Len(ModelsOf(backend.name))
      ]_vars

\* call_groq_api has failed after six requests that all came back with 429,
\* having waited 1 and 2 seconds with each of the three variants.
C15_AllRateLimited ==
    /\ backend.name = "groq"
    /\ backend.pc = "raised"
    /\ Len(backend.log) = 6
    /\ \A i \in 1..Len(backend.log) :
         /\ backend.log[i].out.status = 429
         /\ backend.log[i].wait = (IF i % 2 = 1 THEN 1 ELSE 2)
         /\ backend.log[i].model = (i + 1) \div 2

\* C16: every transient failure of a backend request (a timeout, a 429, any
\* 5xx status) is followed by a backoff wait and, while the retry budget of
\* the model variant lasts, by the next attempt with the same variant.  The
\* code waits only after a timeout and a 429, retries other 5xx statuses at
\* once and, in call_groq_api, leaves the variant on a 503: the statement is
\* violated, see C16_ServerErrorRetriedAtOnce.
C16_TransientRetriedWithBackoff ==
    \A i \in 1..Len(backend.log) :
        LET sent == backend.log[i]
            transient == \/ sent.out.kind = "timeout"
                         \/ sent.out.status = 429
                         \/ sent.out.status >= 500
        IN transient =>
             /\ sent.wait >= 1
             /\ sent.attempt + 1 < RetriesOf(backend.name) =>
                  IF i < Len(backend.log)
                  THEN /\ backend.log[i + 1].model = sent.model
                       /\ backend.log[i + 1].attempt = sent.attempt + 1
                  ELSE /\ backend.pc = "request"
                       /\ backend.model = sent.model
                       /\ backend.attempt = sent.attempt + 1

\* A request came back with 500 and the next request, with the same model
\* variant, was sent without a wait.
C16_ServerErrorRetriedAtOnce ==
    \E i \in 1..Len(backend.log) :
        /\ backend.log[i].out.status = 500
        /\ backend.log[i].wait = 0
        /\ i < Len(backend.log)
        /\ backend.log[i + 1].model = backend.log[i].model

\* C17: after a permanent failure (a 4xx status other than 429) a backend
\* sends no further request with the same model variant.  The code leaves
\* the variant only on a 400 in call_groq_api; every other 4xx, and every 4xx
\* in call_cerebras_api, is retried with the same variant: the statement is
\* violated, see C17_UnauthorizedRetried.
C17_PermanentNotRetried ==
    \A i \in 1..Len(backend.log) :
        ( /\ backend.log[i].out.status >= 400
          /\ backend.log[i].out.status < 500
          /\ backend.log[i].out.status # 429 )
        => /\ \A j \in (i + 1)..Len(backend.log) :
                backend.log[j].model # backend.log[i].model
           /\ i = Len(backend.log) /\ backend.pc = "request"
                => backend.model # backend.log[i].model

\* A request came back with 401 and the next request was sent with the same
\* model variant.
C17_UnauthorizedRetried ==
    \E i \in 1..Len(backend.log) :
        /\ backend.log[i].out.status = 401
        /\ i < Len(backend.log)
        /\ backend.log[i + 1].model = backend.log[i].model

\* C18: classify_intent always returns, and what it returns is the first
\* group with a matching pattern in the order TIME_QUERY, DATE_QUERY, GREETING,
\* SMALL_TALK, REAL_TIME_DATA, INFO_QUESTION, and GENERAL_TASK when no group
\* matches.
C18_FirstMatchWins ==
    call.fn = "classify_intent" =>
        /\ ~call.returned => ENABLED classify_intent_returns
        /\ call.returned =>
             LET g == call.query.groups
             IN call.result =
                  (IF "time_query" \in g THEN "time_query"
                   ELSE IF "date_query" \in g THEN "date_query"
                   ELSE IF "greeting" \in g THEN "greeting"
                   ELSE IF "small_talk" \in g THEN "small_talk"
                   ELSE IF "real_time" \in g THEN "real_time"
                   ELSE IF "info_question" \in g THEN "info_question"
                   ELSE "general_task")

\* classify_intent has returned DATE_QUERY for a query that a greeting
\* pattern and a real-time pattern match as well.
C18_DateBeforeGreeting ==
    /\ call.fn = "classify_intent"
    /\ call.returned
    /\ call.query.groups = {"date_query", "greeting", "real_time"}
    /\ call.result = "date_query"

\* C19 as stated: classify_intent_with_ai returns classify_intent(query) when
\* the request fails and when the answer names none or more than one of the
\* four buckets, and the mapped intent only when it names exactly one.  The
\* code maps an answer that names no bucket to GENERAL_TASK and resolves an
\* answer that names several by the order of its tests, so this is violated.
C19_FallsBackUnlessUnambiguous ==
    (call.fn = "classify_intent_with_ai" /\ call.returned /\ call.asked) =>
        LET named == call.llm.words \cap {"GREETING", "SMALL_TALK", "KNOWLEDGE", "REALTIME"}
        IN IF call.llm.kind # "text" \/ Cardinality(named) # 1
           THEN call.result = classify_intent(call.query)
           ELSE call.result = (IF named = {"GREETING"} THEN "greeting"
                               ELSE IF named = {"SMALL_TALK"} THEN "small_talk"
                               ELSE IF named = {"KNOWLEDGE"} THEN "general_task"
                               ELSE "real_time")

\* C19: classify_intent_with_ai returns classify_intent(query) when the
\* stripped query has at most 2 characters (no request is sent) and when the
\* request fails (non-200 status, timeout, exception, unreadable body).
\* Otherwise the answer decides by the first test that succeeds: GREETING
\* gives GREETING; SMALL_TALK gives SMALL_TALK; KNOWLEDGE or GENERAL gives
\* GENERAL_TASK; REALTIME or LIVE gives REAL_TIME_DATA; an answer with none of
\* these gives GENERAL_TASK, not the rule-based classification.
C19_FallsBackOnFailureOnly ==
    (call.fn = "classify_intent_with_ai" /\ call.returned) =>
        LET ws == call.llm.words
        IN /\ call.asked <=> call.query.len > 2
           /\ call.result =
                (IF call.query.len <= 2 \/ call.llm.kind # "text"
                 THEN classify_intent(call.query)
                 ELSE IF "GREETING" \in ws THEN "greeting"
                 ELSE IF "SMALL_TALK" \in ws THEN "small_talk"
                 ELSE IF ws \cap {"KNOWLEDGE", "GENERAL"} # {} THEN "general_task"
                 ELSE IF ws \cap {"REALTIME", "LIVE"} # {} THEN "real_time"
                 ELSE "general_task")

\* classify_intent_with_ai has returned GENERAL_TASK on an answer that names
\* no bucket, for a query the rules classify as INFO_QUESTION.
C19_UnnamedBucketIsGeneralTask ==
    /\ call.fn = "classify_intent_with_ai"
    /\ call.returned
    /\ call.asked
    /\ call.llm = Llm("text", {"UNSURE"})
    /\ classify_intent(call.query) = "info_question"
    /\ call.result = "general_task"

\* C20: get_dynamic_response_config returns 'casual' with max_tokens 500 for
\* the intents GREETING and SMALL_TALK whatever the keywords; otherwise 'brief'
\* when a brevity keyword is present, whatever else is present; otherwise
\* 'detailed' when a detail keyword, a complex-question pattern or 12 or more
\* words are present; otherwise 'normal'.  The result is one of the four
\* shapes and depends on the inputs only.
C20_ShapePrecedence ==
    (call.fn = "get_dynamic_response_config" /\ call.returned) =>
        LET m == call.message
            style == IF call.intent \in {"greeting", "small_talk"} THEN "casual"
                     ELSE IF m.short THEN "brief"
                     ELSE IF m.detail \/ m.complex \/ m.words >= 12 THEN "detailed"
                     ELSE "normal"
        IN /\ call.config.response_style = style
           /\ call.config \in { [response_style |-> "casual", max_tokens |-> 500],
                                [response_style |-> "brief", max_tokens |-> 800],
                                [response_style |-> "detailed", max_tokens |-> 6000],
                                [response_style |-> "normal", max_tokens |-> 4000] }

\* get_dynamic_response_config has returned 'brief' for a query of 12 words
\* with a brevity keyword, a detail keyword and a complex-question pattern.
C20_BriefBeforeDetailed ==
    /\ call.fn = "get_dynamic_response_config"
    /\ call.returned
    /\ call.intent = "info_question"
    /\ call.message = Message(TRUE, TRUE, TRUE, 12)
    /\ call.config.response_style = "brief"

\* C26: a message whose intent is GREETING or SMALL_TALK is processed
\* without any call of the time service, the event aggregator or a search
\* backend: the call goes straight to the race with the query itself as the
\* user message, no search block around it; and when the race of a call that
\* searched nothing is won, the history as pruning left it grows by exactly
\* the raw query and the raw response.
C26_GreetingSearchesNothing ==
    /\ [][ \A u \in Users, q \in Queries, intent \in {"greeting", "small_talk"} :
             Begin(u, q, intent) =>
                 /\ pc' = "race_wait1"
                 /\ attempted' = <<>>
                 /\ search_results' = NoText
                 /\ search_sources' = <<>>
                 /\ user_content' = [kind |-> "query", body |-> q.text, search |-> NoText]
       ]_vars
    /\ [][ (pc \in {"race_wait1", "race_wait2"} /\ attempted = <<>> /\ search_results = NoText) =>
             /\ attempted' = <<>> /\ search_results' = NoText
             /\ pc' \in {"race_wait1", "race_wait2", "done"}
             /\ (pc' = "done" /\ provider' # "") =>
                  LET new == user_sessions'[uid].conversation_history
                      old == user_sessions[uid].conversation_history
                  IN  /\ new = old \o
                             << [role |-> "user",
                                 content |-> [kind |-> "query", body |-> user_query.text,
                                              search |-> NoText]],
                                [role |-> "assistant",
                                 content |-> [kind |-> "response", body |-> "Sure! 42",
                                              search |-> NoText]] >>
       ]_vars

\* The event query, sent with an intent that needs no search, has been
\* answered: nothing was searched and the plain pair is the end of the history.
C26_GreetingAnswered ==
    /\ pc = "done"
    /\ provider \in Backends
    /\ user_query.event
    /\ attempted = <<>>
    /\ search_results = NoText
    /\ Len(user_sessions[uid].conversation_history) >= 2

\* C29: smart_search asks the time service first exactly when the query is
\* a time/date query.  When the time service returns a result, smart_search
\* returns that result with the one label 'Time API' and no search backend has
\* been called; when it fails or returns nothing the chain goes on with the
\* first backend, Tavily.
C29_TimeServiceShortCircuits ==
    /\ [][ (pc \in {"idle", "done", "events"}
             /\ pc' \in {"time", "tavily", "google", "instant", "ddgs", "wiki", "jina"}) =>
             ((pc' = "time") <=> user_query'.time) ]_vars
    /\ [][ pc = "time" =>
             IF last_ret'.origin # "None" /\ last_ret'.len > 0
             THEN /\ pc' = "race_wait1"
                  /\ search_results' = last_ret'
                  /\ search_results'.origin = "time"
                  /\ search_sources' = <<"Time API">>
                  /\ attempted' = <<"time">>
             ELSE /\ pc' = "tavily"
                  /\ attempted' = <<"time", "tavily">>
                  /\ search_results' = NoText ]_vars

\* The time service has answered and the race runs on its text: no backend
\* of the chain was called.
C29_AnsweredByTimeService ==
    /\ pc = "race_wait1"
    /\ attempted = <<"time">>
    /\ search_results.origin = "time"
    /\ search_sources = <<"Time API">>

\* C30: provided every request terminates, call_groq_api sends at most 6
\* requests (3 model variants, 2 attempts each) and call_cerebras_api at most
\* 3, and each call then returns a result or raises.
C30_BoundedRequestsThenOver ==
    /\ [](Len(backend.log) <= (IF backend.name = "groq" THEN 6 ELSE 3))
    /\ [](backend.pc = "request" =>
              Len(backend.log) < (IF backend.name = "groq" THEN 6 ELSE 3))
    /\ <>(backend.pc \in {"returned", "raised"})

\* call_groq_api has raised after 6 requests none of which was answered with
\* 200, 400 or 503.
C30_AllRequestsUsed ==
    /\ backend.name = "groq"
    /\ backend.pc = "raised"
    /\ Len(backend.log) = 6
    /\ \E i \in 1..6 : backend.log[i].out.kind = "timeout"
    /\ \E i \in 1..6 : backend.log[i].out.status = 500

\* C30, the consequence for the callers: once both backend tasks finish,
\* race_ai_models and with it every get_llama_response call that has begun
\* returns.
C30_GetLlamaResponseReturns ==
    (pc \notin {"idle", "done"}) ~> (pc = "done" /\ ret.kind = "str")

\* C28: once the history of a user has been cleared, no turn that was in
\* it at that moment is in the history again, also when a call of the user was
\* in flight during the clear.  The call in flight holds the list it read
\* before the clear and stores it back, so the statement is violated: see
\* C28_ClearedTurnsBack.
C28_ClearedTurnsStayGone ==
    (DOMAIN conc.pc = InFlightCalls) =>
        \A i \in 1..Len(SessionHistory) : SessionHistory[i] \notin conc.cleared

\* All calls have returned, the history was cleared while a call was in
\* flight, and the history holds a turn of a message from before the clear.
C28_ClearedTurnsBack ==
    /\ AllCallsDone
    /\ conc.clears = 1
    /\ \E i \in 1..Len(SessionHistory) :
         /\ SessionHistory[i] \in conc.cleared
         /\ SessionHistory[i].msg < 1

\* C27: load_user_data recovers the data file record by record: a
\* well-formed record of a readable file is loaded as it is, whatever the
\* other records of the file are.  One record that is not a mapping, or
\* one key that is not an integer, makes load_user_data return {}, so the
\* statement is violated: see C27_RecordsOfOthersDiscarded.
C27_WellFormedRecordsLoaded ==
    \A u \in DOMAIN store.loaded :
        (store.file.readable /\ store.file.entries[u] = Object(WellFormedRecord))
            => store.loaded[u] = WellFormedRecord

\* C27, the failing case: the file is readable and holds a well-formed
\* record of one user and a value that is not a mapping under the key of
\* another, and the record of the first user is not among the sessions.
C27_RecordsOfOthersDiscarded ==
    \E u \in DOMAIN store.loaded : \E w \in DOMAIN store.loaded :
        /\ u # w
        /\ store.file.readable /\ ~store.file.bad_key
        /\ store.file.entries[u] = Object(WellFormedRecord)
        /\ store.file.entries[w].kind = "not_mapping"
        /\ ~store.loaded[u].exists
        /\ ~store.user_sessions[u].exists

\* C21: get_user_session is idempotent.  The call for a user without a
\* session creates the session with the defaults and calls save_user_data right
\* after creating it; the call for a user with a session creates nothing and
\* leaves every valid field as it was; and a second call right after the first
\* changes nothing at all.  (stats_command is the handler that does nothing to
\* the store but call get_user_session.)
C21_GetUserSessionIdempotent ==
    [][\A u \in UserIds :
          stats_command(u) =>
             LET old == store.user_sessions[u]
                 new == store'.user_sessions[u]
                 again == GetUserSession([store' EXCEPT !.trace = <<>>], u)
             IN /\ ~old.exists => /\ new = CreatedSession
                                  /\ store'.trace = <<"create", "save">>
                /\ old.exists =>
                     /\ \A i \in 1..Len(store'.trace) : store'.trace[i] # "create"
                     /\ new.exists
                     /\ new.message_count = old.message_count
                     /\ new.last_message_time_str = old.last_message_time_str
                     /\ new.last_message_time_dt = old.last_message_time_dt
                     /\ new.username = old.username
                     /\ new.language = old.language
                     /\ new.created_at = old.created_at
                     /\ old.has_history =>
                            new.conversation_history = old.conversation_history
                     /\ old.preferences # Missing => new.preferences = old.preferences
                     /\ old.model_name \in valid_models => new.model_name = old.model_name
                     /\ old.system_prompt \notin {Missing, NotAString, Blank} =>
                            new.system_prompt = old.system_prompt
                /\ again.user_sessions = store'.user_sessions
                /\ again.trace = <<>>
     ]_vars

\* C21, the case: a later call for a user whose session has been used (a
\* message counted, a pair in the history, a prompt of the user's own) has
\* returned and has done nothing to the store.
C21_LaterCallKeepsSession ==
    \E u \in DOMAIN store.user_sessions :
        /\ store.op = "stats_command" /\ store.actor = u
        /\ store.trace = <<>>
        /\ store.user_sessions[u].message_count = 1
        /\ store.user_sessions[u].conversation_history = <<"user", "assistant">>
        /\ store.user_sessions[u].system_prompt = "Talk like a robot."

\* C22: clear_user_history for a user with a session empties the history,
\* leaves every other field of the session as it was, saves and returns True;
\* for a user without a session it changes no session and returns False.
C22_ClearEmptiesHistoryOnly ==
    [][\A u \in UserIds :
          clear_command(u) =>
             IF store.user_sessions[u].exists
             THEN /\ store'.user_sessions =
                        [store.user_sessions EXCEPT ![u].has_history = TRUE,
                                                    ![u].conversation_history = <<>>]
                  /\ store'.result = "True"
                  /\ store'.trace = <<"mutate", "save">>
             ELSE /\ store'.user_sessions = store.user_sessions
                  /\ store'.result = "False"
                  /\ store'.trace = <<>>
     ]_vars

\* C22, the case: the history of a user who has sent a message and set a
\* prompt has been cleared, and the counter and the prompt are still there.
C22_HistoryCleared ==
    \E u \in DOMAIN store.user_sessions :
        /\ store.op = "clear_command" /\ store.actor = u
        /\ store.result = "True"
        /\ store.user_sessions[u].conversation_history = <<>>
        /\ store.user_sessions[u].message_count = 1
        /\ store.user_sessions[u].last_message_time_dt = "now"
        /\ store.user_sessions[u].system_prompt = "Talk like a robot."

\* C24, as stated: after a handler that has called get_user_session, the
\* session of the user has a model_name that is a valid identifier, a
\* system_prompt that is a string and not blank, a history and preferences.
\* A session loaded from a record without model_name keeps lacking the key
\* (get_user_session validates session.get('model_name', DEFAULT_MODEL)), so
\* the statement about the field itself is violated.
C24_SessionValid ==
    \A u \in DOMAIN store.user_sessions :
        (store.actor = u /\ store.op \in {"stats_command", "start_command",
                                          "handle_message", "system_command"})
            => /\ store.user_sessions[u].exists
               /\ store.user_sessions[u].model_name \in valid_models
               /\ store.user_sessions[u].system_prompt \notin {Missing, NotAString, Blank}
               /\ store.user_sessions[u].has_history
               /\ store.user_sessions[u].preferences # Missing

\* C24, amended: after a handler that has called get_user_session, the
\* model name as every reader reads it, session.get('model_name',
\* DEFAULT_MODEL), is a valid identifier, the system_prompt is a string and
\* not blank, and the history and the preferences exist; the call resets an
\* invalid model name and an invalid prompt to the defaults, keeps every
\* other field, and returns the session.
C24_SessionValidAsRead ==
    [][\A u \in UserIds :
          /\ (store'.actor = u /\ store'.op \in {"stats_command", "start_command",
                                                 "handle_message", "system_command"})
                => /\ store'.user_sessions[u].exists
                   /\ Get(store'.user_sessions[u].model_name, DEFAULT_MODEL) \in valid_models
                   /\ store'.user_sessions[u].system_prompt
                          \notin {Missing, NotAString, Blank}
                   /\ store'.user_sessions[u].has_history
                   /\ store'.user_sessions[u].preferences # Missing
          /\ stats_command(u) =>
                LET old == store.user_sessions[u]
                    new == store'.user_sessions[u]
                IN old.exists =>
                     /\ new.model_name =
                           (IF old.model_name \in valid_models \cup {Missing}
                            THEN old.model_name ELSE DEFAULT_MODEL)
                     /\ new.system_prompt =
                           (IF old.system_prompt \in {Missing, NotAString, Blank}
                            THEN DEFAULT_SYSTEM_INSTRUCTION ELSE old.system_prompt)
                     /\ [new EXCEPT !.model_name = "", !.system_prompt = "",
                                    !.has_history = TRUE, !.preferences = "defaults"]
                        = [old EXCEPT !.model_name = "", !.system_prompt = "",
                                      !.has_history = TRUE, !.preferences = "defaults"]
     ]_vars

\* C24, the case: the session loaded from a record with a model name that
\* is not valid has been through get_user_session: the model is the default,
\* the prompt and the counter of the record are kept, history and preferences
\* have been added.
C24_InvalidModelReset ==
    /\ store.op = "stats_command" /\ store.actor = 1
    /\ store.file.entries[1] = Object(FileRecord("You are a helpful pirate.", "gemini-pro"))
    /\ store.loaded[1].model_name = "gemini-pro"
    /\ store.user_sessions[1] =
          [FileRecord("You are a helpful pirate.", DEFAULT_MODEL)
              EXCEPT !.has_history = TRUE, !.preferences = "defaults"]
    /\ store.trace = <<"repair", "repair", "repair">>

\* C25: the handler of an update of one user never changes a field of the
\* session of another user, in whatever order the updates of the users are
\* handled.
C25_OtherSessionsUntouched ==
    [][\A a \in UserIds : \A b \in UserIds :
          (store'.actor = a /\ b # a) => store'.user_sessions[b] = store.user_sessions[b]
     ]_vars

\* C25, the case: the history of one user has been cleared while the other
\* user has a session with a pair in its history, which is still there.
C25_OtherHistoryKept ==
    \E a \in DOMAIN store.user_sessions : \E b \in DOMAIN store.user_sessions :
        /\ a # b
        /\ store.op = "clear_command" /\ store.actor = a /\ store.result = "True"
        /\ store.user_sessions[a].conversation_history = <<>>
        /\ store.user_sessions[a].message_count = 1
        /\ store.user_sessions[b].conversation_history = <<"user", "assistant">>

\* C23: when the handler of an update ends, every change it made to a
\* session (a field repaired by get_user_session, a counter, a history, a
\* prompt) has been followed by a save_user_data call.  handle_message saves
\* only at the end of its try, start_command and the handlers that only read
\* never save, so the statement is violated: see C23_CountedAndNotSaved.
C23_EveryMutationSaved ==
    Len(store.trace) > 0 => store.trace[Len(store.trace)] = "save"

\* C23, the failing case: handle_message has counted the message of a user
\* with a session and get_llama_response has appended the pair to the history,
\* and the handler has ended without a save_user_data call.
C23_CountedAndNotSaved ==
    \E u \in DOMAIN store.user_sessions :
        /\ store.op = "handle_message" /\ store.actor = u
        /\ store.loaded[u].exists
        /\ store.user_sessions[u].message_count = store.loaded[u].message_count + 1
        /\ store.user_sessions[u].conversation_history = <<"user", "assistant">>
        /\ \A i \in 1..Len(store.trace) : store.trace[i] # "save"

\* C31: a call whose race fails (both backends failed) appends nothing:
\* when it returns, the history of its user and the call's own list are what
\* the pruning step at the start of the call left, the same as in the step
\* before; no marker of the search is stored, whether or not the search found
\* anything.
C31_FailedRaceAppendsNothing ==
    [][ (pc \in {"race_wait1", "race_wait2"} /\ pc' = "done" /\ provider' = "") =>
          /\ \A b \in Backends : tasks'[b] = "failed"
          /\ user_sessions' = user_sessions
          /\ conversation_history' = conversation_history
          /\ user_sessions'[uid].conversation_history = conversation_history
          /\ Len(conversation_history) <= 2 * MAX_HISTORY
          /\ ret'.kind = "str" ]_vars

\* C31, the case: a call that pruned the history and whose search found a
\* text has returned after both backends failed, and the history is the
\* pruned one.
C31_FailedAfterSearch ==
    /\ pc = "done"
    /\ \A b \in Backends : tasks[b] = "failed"
    /\ provider = ""
    /\ Truthy(search_results)
    /\ pruned
    /\ user_sessions[uid].conversation_history = conversation_history
    /\ Len(conversation_history) = 2 * MAX_HISTORY
    /\ \A i \in 1..Len(conversation_history) :
           conversation_history[i].content.kind \in {"query", "response"}

\* C33: the message list a call hands to the backends is one system
\* message, then the stored history of the user (at most 2 * MAX_HISTORY
\* entries, in stored order, none of them a system message), then one user
\* message for the current query: the content followed by the length and
\* format instruction.  The message of the current turn is the last one only;
\* the history section is the history before the turn is stored.
C33_MessagesShape ==
    (pc \in {"race_wait1", "race_wait2"}) =>
        LET n == Len(messages)
            h == user_sessions[uid].conversation_history
        IN  /\ n = Len(h) + 2
            /\ Len(h) <= 2 * MAX_HISTORY
            /\ messages[1] = SystemMessage
            /\ \A i \in 2..n : messages[i].role \in {"user", "assistant"}
            /\ \A i \in 2..(n - 1) :
                   /\ messages[i] = h[i - 1]
                   /\ "suffix" \notin DOMAIN messages[i].content
            /\ messages[n].role = "user"
            /\ messages[n].content.kind = user_content.kind
            /\ messages[n].content.body = user_query.text
            /\ messages[n].content.search = user_content.search
            /\ messages[n].content.suffix = "length_instruction format_instruction"

\* C33, the case: a call that pruned the history and found a search text is
\* in the race with a message list of the system message, the 20 entries of
\* the history and the message built around the search text.
C33_FullHistorySent ==
    /\ pc = "race_wait1"
    /\ pruned
    /\ Len(messages) = 2 * MAX_HISTORY + 2
    /\ messages[Len(messages)].content.kind = "enhanced"
    /\ Truthy(messages[Len(messages)].content.search)
    /\ messages[2].role = "user"

\* C32, as stated: call_groq_api contacts its variants in the order Kimi K2,
\* GPT-OSS-120B, GPT-OSS-20B, a variant only after the one before it has used
\* all its attempts or has answered 400 or 503, and no request follows a 200
\* response.  A 200 response whose body holds no completion raises inside the
\* try and is retried, so the statement is violated for such a response.
C32_ReturnsAtFirst200 ==
    (backend.name = "groq") =>
        /\ \A i \in 1..Len(backend.log) :
              (i = 1 => backend.log[i].model = 1 /\ backend.log[i].attempt = 0)
        /\ \A i \in 1..(Len(backend.log) - 1) :
              LET a == backend.log[i]
                  c == backend.log[i + 1]
              IN  /\ a.out.status # 200
                  /\ \/ c.model = a.model /\ c.attempt = a.attempt + 1
                     \/ /\ c.model = a.model + 1 /\ c.attempt = 0
                        /\ (a.attempt = GroqRetries - 1 \/ a.out.status \in {400, 503})

\* C32, amended: call_groq_api contacts its variants in the order Kimi K2,
\* GPT-OSS-120B, GPT-OSS-20B from the first attempt of the first; the request
\* after one that was answered 400 or 503 goes to the next variant, the request
\* after any other goes to the same variant until its attempts are used up and
\* then to the next; and the call returns at the first 200 response whose
\* completion can be read, which is the last request of the call.
C32_VariantsInOrder ==
    (backend.name = "groq") =>
        /\ GroqModels[1] = "moonshotai/kimi-k2-instruct-0905"
        /\ GroqModels[2] = "openai/gpt-oss-120b"
        /\ GroqModels[3] = "openai/gpt-oss-20b"
        /\ \A i \in 1..Len(backend.log) :
              /\ backend.log[i].model \in 1..Len(GroqModels)
              /\ backend.log[i].attempt \in 0..(GroqRetries - 1)
              /\ i = 1 => (backend.log[i].model = 1 /\ backend.log[i].attempt = 0)
        /\ \A i \in 1..(Len(backend.log) - 1) :
              LET a == backend.log[i]
                  c == backend.log[i + 1]
              IN  /\ ~(a.out.status = 200 /\ a.out.body)
                  /\ IF a.out.status \in {400, 503} \/ a.attempt = GroqRetries - 1
                     THEN c.model = a.model + 1 /\ c.attempt = 0
                     ELSE c.model = a.model /\ c.attempt = a.attempt + 1
        /\ (backend.pc = "returned") <=>
               /\ Len(backend.log) > 0
               /\ backend.log[Len(backend.log)].out = HttpResponse(200, TRUE)

\* C32, the case: the first variant answered 503, the second a 200 without
\* a completion and then 429, and the call returned with the 200 response of
\* the third variant.
C32_ThirdVariantAnswers ==
    /\ backend.name = "groq"
    /\ backend.pc = "returned"
    /\ Len(backend.log) = 4
    /\ backend.log[1].out.status = 503
    /\ backend.log[2].model = 2 /\ backend.log[2].out = HttpResponse(200, FALSE)
    /\ backend.log[3].model = 2 /\ backend.log[3].out.status = 429
    /\ backend.log[4].model = 3 /\ backend.log[4].out = HttpResponse(200, TRUE)

\* C34: a call that searches for a query with an event keyword awaits the
\* event aggregator before any search backend.  When the aggregator comes back
\* with events, the call goes to the race with the events text, the label
\* "Events Intelligence Agent" and no search backend called; when it comes
\* back with none (every source empty or failed), and only then, smart_search
\* is entered.  A text of the aggregator is never under another label.
C34_EventsFirstThenFallback ==
    /\ [][ \A u \in Users, q \in Queries, intent \in Intents :
             (Begin(u, q, intent) /\ q.event /\ ShouldSearch(SEARCH_ENABLED, q, intent)) =>
                 /\ pc' = "events"
                 /\ attempted' = <<>>
       ]_vars
    /\ [][ (pc = "events" /\ pc' # "events") =>
             IF last_ret'.origin = "events"
             THEN /\ pc' = "race_wait1"
                  /\ attempted' = <<>>
                  /\ search_results'.origin = "events"
                  /\ search_sources' = <<"Events Intelligence Agent">>
             ELSE /\ last_ret' = NoText
                  /\ pc' \in {"time", "tavily", "google", "instant", "ddgs", "wiki", "jina"}
                  /\ attempted' = <<pc'>>
                  /\ search_sources' = <<>>
       ]_vars
    /\ [](search_results.origin = "events" =>
             /\ attempted = <<>>
             /\ search_sources = <<"Events Intelligence Agent">>
             /\ user_query.event)
    /\ []((attempted # <<>> /\ user_query.event) => last_ret.origin # "events")

\* C34, the case: a call for the event query has been answered from the
\* events both sources reported, with no search backend called.
C34_AnsweredFromEvents ==
    /\ pc = "done"
    /\ provider \in Backends
    /\ user_query.event
    /\ attempted = <<>>
    /\ search_results = EventsText(<<[title |-> "PyDelhi Meetup", source |-> "Eventbrite"],
                                     [title |-> "PyDelhi Meetup", source |-> "Meetup"]>>)
    /\ search_sources = <<"Events Intelligence Agent">>

\* C35: the list discover_events returns never holds two events whose
\* normalized titles (lower-cased, punctuation stripped) are equal.
\* discover_events extends one list by the list of each source and deduplicates
\* nothing, so the statement is violated: see C35_SameEventTwice.
C35_NoDuplicateTitles ==
    (call.fn = "discover_events" /\ call.returned) =>
        \A i \in 1..Len(call.events) : \A j \in 1..Len(call.events) :
            i # j => Normalize(call.events[i].title) # Normalize(call.events[j].title)

\* C35, the failing case: both sources reported the same event, under
\* titles that differ in case and punctuation only, and discover_events has
\* returned it twice.
C35_SameEventTwice ==
    /\ call.fn = "discover_events" /\ call.returned
    /\ call.titles = << <<"PyDelhi Meetup">>, <<"pydelhi meetup!">> >>
    /\ call.events = << [title |-> "PyDelhi Meetup", source |-> "Eventbrite"],
                        [title |-> "pydelhi meetup!", source |-> "Meetup"] >>

\* C36, as stated: the search text put into the prompt has at most 3000
\* characters.  The marker "\n... [truncated for accuracy]" is appended
\* after the first 3000 characters, so the statement is violated by every
\* search text of more than 3000 characters.
C36_AtMost3000 ==
    (call.fn = "truncate_context" /\ call.returned) => call.inserted.len <= 3000

\* C36, amended: a search text of at most 3000 characters is put into the
\* prompt as it is; of a longer one the first 3000 characters are, followed by
\* the marker of 29 characters, 3029 characters in all.
C36_AtMost3000AndMarker ==
    (call.fn = "truncate_context" /\ call.returned) =>
        /\ call.inserted.len <= 3029
        /\ call.inserted.origin = call.context.origin
        /\ IF call.context.len <= 3000
           THEN call.inserted = call.context
           ELSE call.inserted.len = 3000 + 29

\* C36, the case: a search text of 3001 characters has been limited, and
\* what goes into the prompt has 3029.
C36_LongerThanBefore ==
    /\ call.fn = "truncate_context" /\ call.returned
    /\ call.context.len = 3001
    /\ call.inserted.len = 3029

\* C37: when a call starts with a history of more than 2 * MAX_HISTORY
\* entries, the history it leaves is the last 2 * MAX_HISTORY entries of the
\* old one, entry for entry in the old order; a history that is not longer is
\* left as it is.
C37_PruneKeepsNewest ==
    [][ \A u \in Users, q \in Queries, intent \in Intents :
          Begin(u, q, intent) =>
              LET old == user_sessions[u].conversation_history
                  new == user_sessions'[u].conversation_history
              IN  IF Len(old) > 2 * MAX_HISTORY
                  THEN /\ pruned'
                       /\ Len(new) = 2 * MAX_HISTORY
                       /\ \A i \in 1..(2 * MAX_HISTORY) :
                              new[i] = old[Len(old) - 2 * MAX_HISTORY + i]
                       /\ conversation_history' = new
                  ELSE /\ ~pruned'
                       /\ new = old
                       /\ conversation_history' = old
      ]_vars

\* C37, the case: a history of ten greeting pairs and, newest, the pair of
\* the event query has been pruned: the newest pair is at the end of the 20
\* entries that are left.
C37_NewestPairKept ==
    /\ pruned
    /\ pc = "race_wait1"
    /\ Len(conversation_history) = 2 * MAX_HISTORY
    /\ user_sessions[uid].conversation_history = conversation_history
    /\ conversation_history[1].content.body = "hi"
    /\ conversation_history[2 * MAX_HISTORY - 1].content.body = "tech events today"
    /\ conversation_history[2 * MAX_HISTORY].role = "assistant"

\* C38: with the messages of a user handled one at a time, the history of
\* the user and the list of the running call never hold more than
\* 2 * MAX_HISTORY + 2 entries, however many messages have been handled; while
\* a call is running they hold at most 2 * MAX_HISTORY.
C38_NeverOverLimitPlusPair ==
    /\ \A u \in Users :
          Len(user_sessions[u].conversation_history) <= 2 * MAX_HISTORY + 2
    /\ Len(conversation_history) <= 2 * MAX_HISTORY + 2
    /\ pc \notin {"idle", "done"} =>
          /\ Len(user_sessions[uid].conversation_history) <= 2 * MAX_HISTORY
          /\ Len(conversation_history) <= 2 * MAX_HISTORY

\* C38, the case: a call that found 22 entries and pruned them to 20 has
\* appended its pair: 22 entries again.
C38_BackAtTheBound ==
    /\ pc = "done"
    /\ pruned
    /\ provider \in Backends
    /\ Len(conversation_history) = 2 * MAX_HISTORY + 2
    /\ user_sessions[uid].conversation_history = conversation_history

====
